---- MODULE Spec2Model ----
(***************************************************************************)
(* A model of the halorbits plotting scripts: the rotating-frame (EMBR)    *)
(* construction of nrho_plot.py / test_transform.py, the time grids the    *)
(* scripts build, and their per-epoch sampling loops.                      *)
(*                                                                         *)
(* Arithmetic is exact.  A real number that the code holds as a float is   *)
(* held here as n / sqrt(d) (a record [n, d], d > 0), which is closed      *)
(* under the dot products, cross products and normalisations the frame     *)
(* construction performs; d = 0 stands for NaN.  Epochs are rationals      *)
(* [n, d] in lowest terms.  Floating-point rounding is not modelled.       *)
(***************************************************************************)
EXTENDS Integers, Sequences, FiniteSets, TLC

VARIABLES
    script,        \* which script is running
    pc,            \* position in the script's top-level code / main()
    eph,           \* the ephemeris the loaded kernels describe (the oracle)
    et_start,      \* start bound of the sampling window (seconds)
    et_end,        \* end bound of the sampling window (seconds)
    cover,         \* the coverage window of the spacecraft in its kernel
    total_pts,     \* number of samples asked for
    ets,           \* the epoch grid
    et_mid,        \* mid epoch
    call,          \* main(): number of the sampler call in progress
    traces,        \* main(): what the sampler calls so far returned
    i,             \* number of loop iterations completed
    targ,          \* body being sampled
    x, y, z,       \* output coordinate lists
    vx, vy, vz,    \* output velocity lists (jwst.py, lucy.py)
    speeds, utcs,  \* hover metadata lists (vger.py)
    ets_moon,      \* jwst.py, genesis_halo_plot.py: grid of the lunar cycle
    moon_x, moon_y, moon_z,  \* the lunar cycle trace
    st_gw,         \* nrho_plot.py: last queried state of the Gateway
    st_moon,       \* nrho_plot.py: last queried state of the Moon
    xfm,           \* nrho_plot.py: last rotation matrix built
    r_gw_embr,     \* nrho_plot.py: xfm @ st_gw[:3]
    r_moon_embr,   \* nrho_plot.py: xfm @ st_moon[:3]
    mid,           \* nrho_plot.py: the static mid-epoch references
    loaded,        \* the kernel registry: the kernels furnished, in load order
    queried,       \* a coverage, time or state query has been made
    asked,         \* the (frame, center) pairs of the state queries made
    sc_asked,      \* the epochs the state of the spacecraft was asked for at
    derived,       \* main(): what the script derives from its samples
    par,           \* a reordered run of the sampling loop: its slots
    argv,          \* sys.argv, once the output stage has read it (<<>> before)
    fs,            \* the file system under ".", once the output stage meets it
    viewer,        \* fig.show() has opened the interactive viewer
    out,           \* the lines the output stage has printed
    err            \* the exception that ended the run, if one did

windowVars == <<et_start, et_end, cover>>
listVars   == <<x, y, z, vx, vy, vz, speeds, utcs>>
moonVars   == <<ets_moon, moon_x, moon_y, moon_z>>
embrVars   == <<st_gw, st_moon, xfm, r_gw_embr, r_moon_embr, mid>>
kernelVars == <<loaded, queried>>
outputVars == <<argv, fs, viewer, out, err>>

vars == <<script, pc, eph, et_start, et_end, cover, total_pts, ets, et_mid, call, traces,
          i, targ, x, y, z, vx, vy, vz, speeds, utcs,
          ets_moon, moon_x, moon_y, moon_z,
          st_gw, st_moon, xfm, r_gw_embr, r_moon_embr, mid,
          loaded, queried, asked, sc_asked, derived, par, argv, fs, viewer, out,
          err>>

-----------------------------------------------------------------------------
(* Bounds of the model *)

\* largest |coordinate| of the Moon's initial position in a rectilinear ephemeris
MaxCoord == 1
\* largest radius of a synthetic circular orbit
MaxR == 2
\* nrho_plot.py samples npts = 400 epochs; the model samples NPts
NPts == 9

None == [none |-> TRUE]

-----------------------------------------------------------------------------
(* Integer helpers *)

Abs(a) == IF a < 0 THEN -a ELSE a

Sign(a) == IF a < 0 THEN -1 ELSE IF a > 0 THEN 1 ELSE 0

\* Euclid's algorithm on a pair of naturals
gcd[p \in Nat \X Nat] == IF p[2] = 0 THEN p[1] ELSE gcd[<<p[2], p[1] % p[2]>>]

GCD(a, b) == gcd[<<a, b>>]

\* floor and ceiling of a / b for b > 0 (\div rounds toward minus infinity)
FloorDiv(a, b) == a \div b

CeilDiv(a, b) == -((-a) \div b)

-----------------------------------------------------------------------------
(* Rational epochs *)

\* the fraction p[1] / p[2] in lowest terms
rat[p \in Int \X Nat] ==
    LET g == GCD(Abs(p[1]), p[2])
    IN  [n |-> p[1] \div g, d |-> p[2] \div g]

Rat(n, d) == rat[<<n, d>>]

RatInt(a) == [n |-> a, d |-> 1]

RatAdd(a, b) == Rat(a.n * b.d + b.n * a.d, a.d * b.d)

RatSub(a, b) == Rat(a.n * b.d - b.n * a.d, a.d * b.d)

RatMulInt(a, k) == Rat(a.n * k, a.d)

RatDivInt(a, k) == Rat(a.n, a.d * k)

RatLess(a, b) == a.n * b.d < b.n * a.d

RatLeq(a, b) == a.n * b.d <= b.n * a.d

RatFloor(a) == FloorDiv(a.n, a.d)

\* mutant: the last instant of the coverage window is left out
InCoverageOpen(et) ==
    RatLeq(RatInt(cover.start), et) /\ RatLess(et, RatInt(cover.end))

\* the kernel of the spacecraft holds a state of it at et: et lies in its
\* coverage window
InCoverage(et) ==
    RatLeq(RatInt(cover.start), et) /\ RatLeq(et, RatInt(cover.end))

\* the exception sp.spkezr raises when the kernels loaded hold no state of
\* the body at the epoch asked for
spk_error == [raised |-> "spkezr", kernel |-> None]

-----------------------------------------------------------------------------
(* Reals of the form n / sqrt(d), and 3-vectors of them sharing one d *)

NaN == [n |-> 0, d |-> 0]

IsNaN(a) == a.d = 0

\* a = b as real numbers
ScEq(a, b) ==
    /\ a.d > 0
    /\ b.d > 0
    /\ Sign(a.n) = Sign(b.n)
    /\ a.n * a.n * b.d = b.n * b.n * a.d

ScIsZero(a) == a.d > 0 /\ a.n = 0

\* a - b for two reals on the same scale; NaN if either is
ScSub(a, b) == IF a.d = 0 \/ b.d = 0 THEN NaN ELSE [n |-> a.n - b.n, d |-> a.d]

Dot3(a, b) == a[1] * b[1] + a[2] * b[2] + a[3] * b[3]

Cross3(a, b) ==
    << a[2] * b[3] - a[3] * b[2],
       a[3] * b[1] - a[1] * b[3],
       a[1] * b[2] - a[2] * b[1] >>

Add3(a, b) == << a[1] + b[1], a[2] + b[2], a[3] + b[3] >>

Scale3(k, a) == << k * a[1], k * a[2], k * a[3] >>

Vec(n, d) == [n |-> n, d |-> d]

NaNVec == Vec(<<0, 0, 0>>, 0)

\* component k of a vector, as a real
Comp(a, k) == IF a.d = 0 THEN NaN ELSE [n |-> a.n[k], d |-> a.d]

VecEq(a, b) == \A k \in 1..3 : ScEq(Comp(a, k), Comp(b, k))

\* np.cross / sp.vcrss
cross(a, b) == Vec(Cross3(a.n, b.n), a.d * b.d)

\* np.dot / one row of a matrix-vector product
dot(a, b) == [n |-> Dot3(a.n, b.n), d |-> a.d * b.d]

\* np.linalg.norm(vec), squared, times vec.d
NormSqN(a) == Dot3(a.n, a.n)

-----------------------------------------------------------------------------
(* Time grids *)

\* mutant: np.linspace(..., endpoint=False), the step being delta / num
linspace_open(start, stop, num) ==
    LET delta == RatSub(stop, start)
    IN  [k \in 1..num |-> RatAdd(start, RatDivInt(RatMulInt(delta, k - 1), num))]

\* np.linspace(start, stop, num): num evenly spaced epochs, both ends included
\* (num = 1 gives [start]; num = 0 gives the empty grid)
linspace(start, stop, num) ==
    LET delta == RatSub(stop, start)
        div   == num - 1
    IN  [k \in 1..num |->
            IF k = 1 THEN start
            ELSE IF k = num THEN stop
            ELSE RatAdd(start, RatDivInt(RatMulInt(delta, k - 1), div))]

-----------------------------------------------------------------------------
(* The ephemeris backend, as the scripts of the EMBR frame see it *)

\* hard-coded NRHO period of nrho_plot.py, 6.7 * 86400.0 s
period == 578880

\* the ephemeris tabulates one state per eighth of the period
CellOf(et) == FloorDiv(8 * et.n, et.d * period)

\* state of a body on a circular orbit of radius R in the XY plane, angular
\* momentum along +Z, at k eighths of a revolution from the +X axis
CircPos(R, k) ==
    CASE k % 8 = 0 -> Vec(<< R, 0, 0>>, 1)
      [] k % 8 = 1 -> Vec(<< R, R, 0>>, 2)
      [] k % 8 = 2 -> Vec(<< 0, R, 0>>, 1)
      [] k % 8 = 3 -> Vec(<<-R, R, 0>>, 2)
      [] k % 8 = 4 -> Vec(<<-R, 0, 0>>, 1)
      [] k % 8 = 5 -> Vec(<<-R, -R, 0>>, 2)
      [] k % 8 = 6 -> Vec(<< 0, -R, 0>>, 1)
      [] OTHER     -> Vec(<< R, -R, 0>>, 2)

CircVel(R, k) ==
    LET p == CircPos(R, k)
    IN  Vec(<< -p.n[2], p.n[1], 0 >>, p.d)

Cube(m) == { <<a, b, c>> : a \in -m..m, b \in -m..m, c \in -m..m }

\* the ephemerides the model draws from: synthetic circular orbits of the
\* Moon about the barycenter, and rectilinear motions r0 + t v0 (which
\* include every degenerate geometry: r parallel to v, r = 0, v = 0)
Ephemerides ==
    { [kind |-> "circ", R |-> R, r0 |-> <<R, 0, 0>>, v0 |-> <<0, R, 0>>,
       goff |-> g] : R \in 1..MaxR, g \in {<<1, 0, 0>>, <<0, 1, 1>>} }
    \cup
    { [kind |-> "lin", R |-> 0, r0 |-> r0, v0 |-> v0, goff |-> <<1, 0, 0>>] :
        r0 \in Cube(MaxCoord), v0 \in Cube(1) }

MoonPos(e, et) ==
    IF e.kind = "circ" THEN CircPos(e.R, CellOf(et))
    ELSE Vec(Add3(e.r0, Scale3(CellOf(et) % 2, e.v0)), 1)

MoonVel(e, et) ==
    IF e.kind = "circ" THEN CircVel(e.R, CellOf(et))
    ELSE Vec(e.v0, 1)

\* sp.spkezr(targ, et, "J2000", "NONE", "EMB"): position and velocity of
\* targ at et, with the query it answers
spkezr(body, et, frame, center) ==
    LET m == MoonPos(eph, et)
        r == CASE body = "MOON"  -> m
               [] body = "EARTH" -> Vec(Scale3(-1, m.n), m.d)
               [] OTHER          -> Vec(Add3(m.n, eph.goff), m.d)
    IN  [r |-> r, v |-> MoonVel(eph, et),
         targ |-> body, et |-> et, frame |-> frame, center |-> center]

\* the frame and center arguments of a state query
Asked(frame, center) == [frame |-> frame, center |-> center]

-----------------------------------------------------------------------------
(* The collinear libration-point estimates *)

\* GM of the Sun and of the Earth (1.32712440018e11 and 3.986004418e5
\* km^3/s^2), in units of the GM of the Earth
gm_sun == 332946

gm_earth == 1

\* the Earth-Moon mass parameter of nrho_plot.py, 0.012150585609624, which
\* is 1 / 82.3006
mu == Rat(10, 823)

\* np.linalg.norm(v): the length of a vector the model holds by name
Norm(v) == [norm |-> v]

\* a distance R * q ** (1/3), held as R and the rational q
CubeRootScaled(R, q) == [R |-> R, q |-> q]

\* mutant: the Hill radius with the mass of the primary alone, R (m / 3M)^(1/3)
hill_distance_primary(R, m_small, m_large) ==
    CubeRootScaled(R, Rat(m_small, 3 * m_large))

\* R * (m_small / (3.0 * (m_large + m_small))) ** (1.0 / 3.0)
hill_distance(R, m_small, m_large) ==
    CubeRootScaled(R, Rat(m_small, 3 * (m_large + m_small)))

\* R_moon * (mu / 3.0) ** (1.0 / 3.0)
cr3bp_distance(R, m) == CubeRootScaled(R, RatDivInt(m, 3))

-----------------------------------------------------------------------------
(* The rotating-frame (EMBR) construction of nrho_plot.py *)

\* vec / np.linalg.norm(vec): n/sqrt(d) over sqrt(n.n/d) is n/sqrt(n.n);
\* a zero vector gives 0/0 = NaN in every component, without an exception
vhat(vec) ==
    IF vec.d = 0 \/ NormSqN(vec) = 0 THEN NaNVec
    ELSE Vec(vec.n, NormSqN(vec))

\* mutant: the X axis taken from the velocity instead of the position
x_hat_velocity(r, v) == vhat(v)

x_hat(r, v) == vhat(r)

z_hat(r, v) == vhat(cross(r, v))

\* mutant: the cross product of Y taken in the other order (X x Z)
y_hat_reversed(r, v) == vhat(cross(x_hat(r, v), z_hat(r, v)))

y_hat(r, v) == vhat(cross(z_hat(r, v), x_hat(r, v)))

\* np.vstack([x_hat, y_hat, z_hat])
Basis(r, v) == << x_hat(r, v), y_hat(r, v), z_hat(r, v) >>

\* mutant: the frame built from the state of the Earth instead of the Moon
get_embr_transform_earth(et) ==
    LET st == spkezr("EARTH", et, "J2000", "EMB")
    IN  [rows |-> Basis(st.r, st.v), et |-> et]

get_embr_transform(et) ==
    LET st == spkezr("MOON", et, "J2000", "EMB")
    IN  [rows |-> Basis(st.r, st.v), et |-> et]

\* xfm @ st[:3], with the epochs of the matrix and of the state it is applied to
MatVec(m, st) ==
    [val    |-> [k \in 1..3 |-> dot(m.rows[k], st.r)],
     mat_et |-> m.et,
     st_et  |-> st.et]

\* a[:3] - b[:3]
Sub3(a, b) == [k \in 1..3 |-> ScSub(a.val[k], b.val[k])]

-----------------------------------------------------------------------------
(* Kernel loading: the furnsh calls of nrho_plot.py and test_transform.py,  *)
(* and load_kernels() of the other scripts                                  *)

AllScripts == {"nrho_plot", "vger", "jwst", "lucy", "juice_cruise",
               "juice_jupiter", "juice_ganymede", "genesis_halo_plot",
               "test_transform"}

\* the kernels a script furnishes, in the order of its list
Kernels(s) ==
    CASE s = "nrho_plot" ->
           <<"naif0012.tls", "pck00010.tpc", "de432s.bsp",
             "receding_horiz_3189_1burnApo_DiffCorr_15yr.bsp">>
      [] s = "test_transform" ->
           <<"naif0012.tls", "pck00010.tpc", "de432s.bsp">>
      [] s = "vger" ->
           <<"naif0012.tls", "voyager_2.ST+1992_m05208u.merged.bsp", "vger.tk",
             "voyager_1.ST+1991_a54418u.merged.bsp">>
      [] s = "jwst" ->
           <<"naif0012.tls", "pck00010.tpc", "de440s.bsp", "jwst_rec.bsp", "gse.tk">>
      [] s = "lucy" ->
           <<"naif0012.tls", "pck00010.tpc", "de440s.bsp",
             "lcy_211016_330402_240718_v1.bsp", "hjb.tk">>
      [] s = "genesis_halo_plot" ->
           <<"naif0012.tls", "pck00010.tpc", "de405s.bsp",
             "gns_010811_041125_101231.bsp", "gse.tk">>
      [] OTHER ->
           <<"naif0012.tls", "pck00010.tpc", "de432s.bsp",
             "jup365_19900101_20500101.bsp", "juice.tk",
             "juice_crema_5_1_150lb_23_1_a3_2_v01.bsp">>

\* mutant: a kernel that fails to load is skipped and the loop goes on
furnsh_skip(reg, k, ok) ==
    [loaded |-> IF ok THEN Append(reg, k) ELSE reg, raised |-> None]

\* sp.furnsh(k): the kernel joins the registry, or the call raises
furnsh(reg, k, ok) ==
    [loaded |-> IF ok THEN Append(reg, k) ELSE reg,
     raised |-> IF ok THEN None ELSE [raised |-> "furnsh", kernel |-> k]]

\* the stage that follows the first queries of a script
AfterCoverage(s) ==
    CASE s = "nrho_plot"      -> "grid"
      [] s = "test_transform" -> "basis"
      [] OTHER                -> "window"

\* mutant: the queries start while the last kernel of the list is still to
\* be loaded
LoadsDoneEarly(s, n) == n >= Len(Kernels(s)) - 1

\* the loads are over, for n kernels loaded: the list is exhausted
LoadsDone(s, n) == n = Len(Kernels(s))

\* one pass of "for k in kernels: sp.furnsh(k)" (one furnsh line of
\* nrho_plot.py or test_transform.py) for kernel number i + 1 of the list:
\* the file is there and well-formed, or it is not and the exception ends
\* the run
Furnsh ==
    /\ pc = "kernels"
    /\ i < Len(Kernels(script))
    /\ \E ok \in BOOLEAN :
          LET res == furnsh(loaded, Kernels(script)[i + 1], ok)
          IN  /\ loaded' = res.loaded
              /\ err' = res.raised
              /\ i' = IF res.raised = None THEN i + 1 ELSE i
              /\ pc' = IF res.raised /= None THEN "aborted"
                       ELSE IF LoadsDone(script, i + 1) THEN "cover"
                       ELSE "kernels"
    /\ UNCHANGED <<queried, asked, sc_asked, derived, par, argv, fs, viewer, out>>
    /\ UNCHANGED <<script, eph, windowVars, total_pts, ets, et_mid, call, traces,
                   targ, listVars, moonVars, embrVars>>

\* the coverage windows the model draws for the spacecraft of script s,
\* whose sampling window runs from a to b: the window itself where both of
\* its bounds are read from the kernel (vger.py line 63, jwst.py line 66,
\* lucy.py line 92); where a bound is a calendar date written in the script
\* (genesis_halo_plot.py line 69, juice_cruise.py line 82, juice_jupiter.py
\* lines 85-86, juice_ganymede.py line 84), a kernel that reaches a day past
\* that date, and one that stops halfway to it; for nrho_plot.py, whose
\* window is coverage start + period (line 77), a kernel of two periods and
\* one of an eighth of a period; test_transform.py reads no coverage
Coverages(s, a, b) ==
    LET h == a + (b - a) \div 2
    IN  CASE s \in {"genesis_halo_plot", "juice_cruise"} ->
               { [start |-> a, end |-> b + 86400], [start |-> a, end |-> h] }
          [] s = "juice_jupiter" ->
               { [start |-> a - 86400, end |-> b + 86400],
                 [start |-> a - 86400, end |-> h] }
          [] s = "juice_ganymede" ->
               { [start |-> a - 86400, end |-> b], [start |-> h, end |-> b] }
          [] s = "nrho_plot" ->
               { [start |-> a, end |-> a + 2 * period],
                 [start |-> a, end |-> a + period \div 8] }
          [] s = "test_transform" -> {None}
          [] OTHER -> { [start |-> a, end |-> b] }

\* the first queries of a script, made of the registry the loads have
\* filled: sp.spkobj / sp.spkcov / sp.wnfetd for the coverage window
\* of the spacecraft, which the kernel decides,
\* sp.et2utc and sp.utc2et for its bounds
Coverage ==
    /\ pc = "cover"
    /\ queried' = TRUE
    /\ cover' \in Coverages(script, et_start, et_end)
    /\ i' = 0
    /\ pc' = AfterCoverage(script)
    /\ UNCHANGED <<loaded, asked, sc_asked, derived, par, outputVars>>
    /\ UNCHANGED <<script, eph, et_start, et_end, total_pts, ets, et_mid, call,
                   traces, targ, listVars, moonVars, embrVars>>

-----------------------------------------------------------------------------
(* Output control: the last statement of every plotting script *)

\* the scripts that also write a PNG preview
ImageScripts == {"nrho_plot", "genesis_halo_plot"}

\* os.path.join("docs", ...): the fixed paths of a script
html_path(s) ==
    CASE s = "nrho_plot"         -> "docs/nrho_plot.html"
      [] s = "vger"              -> "docs/vger.html"
      [] s = "jwst"              -> "docs/jwst_plot.html"
      [] s = "lucy"              -> "docs/lucy_plot.html"
      [] s = "juice_cruise"      -> "docs/juice_cruise.html"
      [] s = "juice_jupiter"     -> "docs/juice_jupiter.html"
      [] s = "juice_ganymede"    -> "docs/juice_ganymede.html"
      [] OTHER                   -> "docs/genesis_halo_plot.html"

png_path(s) ==
    IF s = "nrho_plot" THEN "docs/nrho_preview.png"
    ELSE "docs/genesis_halo_preview.png"

\* the command lines the model draws: no argument, the flag, a near miss
Argvs(s) == { <<s>>, <<s, "--static">>, <<s, "-static">> }

\* a file left by an earlier run, and one written by this run
Stale(path) == [path |-> path, by |-> "before"]

Fresh(path) == [path |-> path, by |-> "run"]

\* the file systems the model draws: no "docs", a directory "docs" holding
\* files of an earlier run, a regular file named "docs"
FileSystems(s) ==
    { [docs |-> "absent", files |-> {}],
      [docs |-> "dir",    files |-> {Stale(html_path(s)), Stale("docs/index.html")}],
      [docs |-> "file",   files |-> {}] }

\* mutant: the single-dash spelling is taken for the flag too
static_flag_prefix(args) ==
    \E n \in 1..Len(args) : args[n] \in {"--static", "-static"}

\* "--static" in sys.argv
static_flag(args) == \E n \in 1..Len(args) : args[n] = "--static"

\* the script reaches its output stage: the command line it was started
\* with and the file system it meets
OutputMode ==
    /\ pc = "plot"
    /\ \E a \in Argvs(script), f \in FileSystems(script) :
          /\ argv' = a
          /\ fs' = f
          /\ pc' = IF static_flag(a) THEN "static" ELSE "show"
    /\ UNCHANGED <<kernelVars, asked, sc_asked, derived, par, viewer, out, err>>
    /\ UNCHANGED <<script, eph, windowVars, total_pts, ets, et_mid, call, traces,
                   i, targ, listVars, moonVars, embrVars>>

\* mutant: os.makedirs("docs") without exist_ok
makedirs_strict(f) ==
    IF f.docs = "absent"
    THEN [fs |-> [f EXCEPT !.docs = "dir"], raised |-> None]
    ELSE [fs |-> f, raised |-> [raised |-> "makedirs", kernel |-> None]]

\* os.makedirs("docs", exist_ok=True): creates the directory when absent,
\* leaves a directory as it is, raises FileExistsError on a regular file
makedirs(f) ==
    CASE f.docs = "absent" -> [fs |-> [f EXCEPT !.docs = "dir"], raised |-> None]
      [] f.docs = "dir"    -> [fs |-> f, raised |-> None]
      [] OTHER             -> [fs |-> f,
                               raised |-> [raised |-> "makedirs", kernel |-> None]]

\* mutant: the PNG preview is exported first
AfterMakeDirsImageFirst(s) ==
    IF s \in ImageScripts THEN "write_image" ELSE "write_html"

\* the stage that follows os.makedirs: the HTML write
AfterMakeDirs(s) == "write_html"

MakeDirs ==
    /\ pc = "static"
    /\ LET res == makedirs(fs)
       IN  /\ fs' = res.fs
           /\ err' = res.raised
           /\ pc' = IF res.raised = None THEN AfterMakeDirs(script) ELSE "aborted"
    /\ UNCHANGED <<kernelVars, asked, sc_asked, derived, par, argv, viewer, out>>
    /\ UNCHANGED <<script, eph, windowVars, total_pts, ets, et_mid, call, traces,
                   i, targ, listVars, moonVars, embrVars>>

\* a file written at path, replacing what was there
WriteFile(f, path) ==
    [f EXCEPT !.files = { e \in @ : e.path /= path } \cup {Fresh(path)}]

\* mutant: the HTML write is made again after it succeeded
AfterHtmlAgain(s) == "write_html"

\* the stage that follows the HTML write
AfterHtml(s) == IF s \in ImageScripts THEN "write_image" ELSE "done"

\* fig.write_html(html_path, ...) and the line printed after it; the write
\* succeeds, or raises (outside any try)
WriteHtml ==
    /\ pc = "write_html"
    /\ \E ok \in BOOLEAN :
          IF ok
          THEN /\ fs' = WriteFile(fs, html_path(script))
               /\ out' = Append(out, "Wrote interactive HTML")
               /\ pc' = AfterHtml(script)
               /\ err' = err
          ELSE /\ err' = [raised |-> "write_html", kernel |-> None]
               /\ pc' = "aborted"
               /\ UNCHANGED <<fs, out>>
    /\ UNCHANGED <<kernelVars, asked, sc_asked, derived, par, argv, viewer>>
    /\ UNCHANGED <<script, eph, windowVars, total_pts, ets, et_mid, call, traces,
                   i, targ, listVars, moonVars, embrVars>>

\* mutant: write_image outside any try: the exception ends the run
image_failure_uncaught ==
    [out |-> out, raised |-> [raised |-> "write_image", kernel |-> None],
     pc |-> "aborted"]

\* except Exception as e: print("PNG export failed ...", e)
image_failure ==
    [out |-> Append(out, "PNG export failed"), raised |-> None, pc |-> "done"]

\* try: fig.write_image(png_path, ...) (nrho_plot.py, genesis_halo_plot.py):
\* the rasterizer writes the file, or raises
WriteImage ==
    /\ pc = "write_image"
    /\ \E ok \in BOOLEAN :
          IF ok
          THEN /\ fs' = WriteFile(fs, png_path(script))
               /\ out' = Append(out, "Wrote static preview PNG")
               /\ pc' = "done"
               /\ err' = err
          ELSE /\ out' = image_failure.out
               /\ err' = image_failure.raised
               /\ pc' = image_failure.pc
               /\ fs' = fs
    /\ UNCHANGED <<kernelVars, asked, sc_asked, derived, par, argv, viewer>>
    /\ UNCHANGED <<script, eph, windowVars, total_pts, ets, et_mid, call, traces,
                   i, targ, listVars, moonVars, embrVars>>

\* else: fig.show()
Show ==
    /\ pc = "show"
    /\ viewer' = TRUE
    /\ pc' = "done"
    /\ UNCHANGED <<kernelVars, asked, sc_asked, derived, par, argv, fs, out, err>>
    /\ UNCHANGED <<script, eph, windowVars, total_pts, ets, et_mid, call, traces,
                   i, targ, listVars, moonVars, embrVars>>

\* the steps every script shares
Lifecycle ==
    \/ Furnsh \/ Coverage
    \/ OutputMode \/ MakeDirs \/ WriteHtml \/ WriteImage \/ Show

-----------------------------------------------------------------------------
(* nrho_plot.py, top-level code *)

\* coverage starts the model draws for the Gateway kernel
NrhoStarts == {0, 72360}

InitNrho ==
    /\ script = "nrho_plot"
    /\ pc = "kernels"
    /\ eph \in Ephemerides
    /\ et_start \in NrhoStarts
    /\ et_end = None
    /\ cover = None
    /\ total_pts = NPts
    /\ ets = <<>>
    /\ et_mid = None
    /\ call = 0
    /\ traces = <<>>
    /\ i = 0
    /\ targ = None
    /\ x = <<>> /\ y = <<>> /\ z = <<>>
    /\ vx = <<>> /\ vy = <<>> /\ vz = <<>>
    /\ speeds = <<>> /\ utcs = <<>>
    /\ ets_moon = <<>>
    /\ moon_x = <<>> /\ moon_y = <<>> /\ moon_z = <<>>
    /\ st_gw = None /\ st_moon = None /\ xfm = None
    /\ r_gw_embr = None /\ r_moon_embr = None
    /\ mid = None
    /\ loaded = <<>> /\ queried = FALSE
    /\ asked = {} /\ sc_asked = {}
    /\ derived = None
    /\ par = None
    /\ argv = <<>> /\ fs = None /\ viewer = FALSE /\ out = <<>> /\ err = None

\* lines 75-78: ets = np.linspace(et_start, et_start + period, npts);
\* et_mid = 0.5 * (ets[0] + ets[-1])
NrhoGrid ==
    /\ script = "nrho_plot" /\ pc = "grid"
    /\ LET g == linspace(RatInt(et_start), RatInt(et_start + period), total_pts)
       IN  /\ ets' = g
           /\ et_mid' = RatDivInt(RatAdd(g[1], g[Len(g)]), 2)
    /\ pc' = "loop"
    /\ UNCHANGED <<kernelVars, asked, sc_asked, derived, par, outputVars>>
    /\ UNCHANGED <<script, eph, windowVars, total_pts, call, traces, i, targ,
                   listVars, moonVars, embrVars>>

\* mutant: the loop reuses the matrix of the mid epoch
LoopXfmEpochMid(et) == et_mid

\* the epoch the loop body builds its matrix for
LoopXfmEpoch(et) == et

\* lines 87-102: one iteration of the sampling loop; the query of the
\* Gateway comes first and ends the run when it raises
NrhoLoop ==
    /\ script = "nrho_plot" /\ pc = "loop"
    /\ i < Len(ets)
    /\ IF InCoverage(ets[i + 1])
       THEN /\ LET et   == ets[i + 1]
                   gw   == spkezr("-60000", et, "J2000", "EMB")
                   moon == spkezr("MOON", et, "J2000", "EMB")
                   m    == get_embr_transform(LoopXfmEpoch(et))
                   rg   == MatVec(m, gw)
                   rm   == MatVec(m, moon)
                   r_mc == Sub3(rg, rm)
               IN  /\ st_gw' = gw
                   /\ st_moon' = moon
                   /\ xfm' = m
                   /\ r_gw_embr' = rg
                   /\ r_moon_embr' = rm
                   /\ x' = Append(x, r_mc[1])
                   /\ y' = Append(y, r_mc[2])
                   /\ z' = Append(z, r_mc[3])
            /\ i' = i + 1
            /\ UNCHANGED <<pc, err>>
       ELSE /\ err' = spk_error
            /\ pc' = "aborted"
            /\ UNCHANGED <<i, x, y, z, st_gw, st_moon, xfm, r_gw_embr,
                           r_moon_embr>>
    /\ asked' = asked \cup {Asked("J2000", "EMB")}
    /\ sc_asked' = sc_asked \cup {ets[i + 1]}
    /\ UNCHANGED <<kernelVars, derived, par, argv, fs, viewer, out>>
    /\ UNCHANGED <<script, eph, windowVars, total_pts, ets, et_mid, call, traces,
                   targ, vx, vy, vz, speeds, utcs, moonVars, mid>>

\* lines 106-121: the static references at the mid epoch
NrhoMid ==
    /\ script = "nrho_plot" /\ pc = "loop"
    /\ i = Len(ets)
    /\ LET st_earth_mid    == spkezr("EARTH", et_mid, "J2000", "EMB")
           xfm_mid         == get_embr_transform(et_mid)
           r_earth_embr    == MatVec(xfm_mid, st_earth_mid)
           st_moon_mid     == spkezr("MOON", et_mid, "J2000", "EMB")
           r_moon_embr_mid == MatVec(xfm_mid, st_moon_mid)
           R_moon          == Norm(r_moon_embr_mid.val)
           r_L2            == cr3bp_distance(R_moon, mu)
       IN  mid' = [st_earth_mid    |-> st_earth_mid,
                   xfm_mid         |-> xfm_mid,
                   r_earth_embr    |-> r_earth_embr,
                   st_moon_mid     |-> st_moon_mid,
                   r_moon_embr_mid |-> r_moon_embr_mid,
                   earth_center_mc |-> Sub3(r_earth_embr, r_moon_embr_mid),
                   R_moon          |-> R_moon,
                   r_L2            |-> r_L2,
                   l2_mc           |-> <<r_L2, 0, 0>>]
    /\ pc' = "plot"
    /\ asked' = asked \cup {Asked("J2000", "EMB")}
    /\ UNCHANGED sc_asked
    /\ UNCHANGED <<kernelVars, derived, par, outputVars>>
    /\ UNCHANGED <<script, eph, windowVars, total_pts, ets, et_mid, call, traces,
                   i, targ, listVars, moonVars,
                   st_gw, st_moon, xfm, r_gw_embr, r_moon_embr>>

NrhoSteps == NrhoGrid \/ NrhoLoop \/ NrhoMid

NextNrho == Lifecycle \/ NrhoSteps

SpecNrho == InitNrho /\ [][NextNrho]_vars

-----------------------------------------------------------------------------
(* test_transform.py *)

\* the ephemeris time of the calendar date of line 11, as the model draws it
TestEpochs == {0, 72360}

InitTest ==
    /\ script = "test_transform"
    /\ pc = "kclear"
    /\ eph \in Ephemerides
    /\ et_start \in TestEpochs
    /\ et_end = None
    /\ cover = None
    /\ total_pts = None
    /\ ets = <<>>
    /\ et_mid = None
    /\ call = 0
    /\ traces = <<>>
    /\ i = 0
    /\ targ = None
    /\ x = <<>> /\ y = <<>> /\ z = <<>>
    /\ vx = <<>> /\ vy = <<>> /\ vz = <<>>
    /\ speeds = <<>> /\ utcs = <<>>
    /\ ets_moon = <<>>
    /\ moon_x = <<>> /\ moon_y = <<>> /\ moon_z = <<>>
    /\ st_gw = None /\ st_moon = None /\ xfm = None
    /\ r_gw_embr = None /\ r_moon_embr = None
    /\ mid = None
    /\ loaded = <<>> /\ queried = FALSE
    /\ asked = {} /\ sc_asked = {}
    /\ derived = None
    /\ par = None
    /\ argv = <<>> /\ fs = None /\ viewer = FALSE /\ out = <<>> /\ err = None

\* lines 5-6: sp.kclear(); sp.reset()
KClear ==
    /\ script = "test_transform" /\ pc = "kclear"
    /\ loaded' = <<>>
    /\ pc' = "kernels"
    /\ UNCHANGED <<queried, asked, sc_asked, derived, par, outputVars>>
    /\ UNCHANGED <<script, eph, windowVars, total_pts, ets, et_mid, call, traces,
                   i, targ, listVars, moonVars, embrVars>>

\* mutant: the vector is handed back as it is, not scaled to unit length
sp_vhat_unscaled(vec) == vec

\* sp.vhat(v): the unit vector along v, and the zero vector for v = 0
sp_vhat(vec) ==
    IF NormSqN(vec) = 0 THEN Vec(<<0, 0, 0>>, 1) ELSE Vec(vec.n, NormSqN(vec))

\* lines 14-39: the state of the Moon, the basis built by hand from it and
\* the Moon's position in that basis
TestBasis ==
    /\ script = "test_transform" /\ pc = "basis"
    /\ LET et            == RatInt(et_start)
           st_moon_j2000 == spkezr("MOON", et, "J2000", "EMB")
           x_axis        == sp_vhat(st_moon_j2000.r)
           z_axis        == sp_vhat(cross(st_moon_j2000.r, st_moon_j2000.v))
           y_axis        == cross(z_axis, x_axis)
           xfm_manual    == [rows |-> <<x_axis, y_axis, z_axis>>, et |-> et]
       IN  derived' = [st_moon_j2000 |-> st_moon_j2000,
                       xfm_manual    |-> xfm_manual,
                       r_embr_manual |-> MatVec(xfm_manual, st_moon_j2000)]
    /\ asked' = asked \cup {Asked("J2000", "EMB")}
    /\ UNCHANGED sc_asked
    /\ pc' = "done"
    /\ UNCHANGED <<kernelVars, par, outputVars>>
    /\ UNCHANGED <<script, eph, windowVars, total_pts, ets, et_mid, call, traces,
                   i, targ, listVars, moonVars, embrVars>>

TestSteps == KClear \/ TestBasis

-----------------------------------------------------------------------------
(* The scripts built around a sampler function: vger.py, jwst.py, lucy.py,  *)
(* juice_cruise.py, juice_jupiter.py, juice_ganymede.py,                    *)
(* genesis_halo_plot.py                                                     *)

\* largest number of whole days in a sampling window of the daily scripts
MaxDays == 10
\* largest number of sampling intervals in a window of the other scripts
MaxSteps == 4
\* jwst.py and genesis_halo_plot.py sample n_lunar = 400 epochs of the lunar
\* cycle; the model samples NLunar
NLunar == 5

\* the daily cadence, 86400.0 s
Day == 86400

\* the filter threshold of vger.py, 6e9 km, in units of 10^9 km
Threshold == 6

Scripts == {"vger", "jwst", "lucy", "juice_cruise", "juice_jupiter",
            "juice_ganymede", "genesis_halo_plot"}

\* Python int(a / c): truncation toward zero
TruncDiv(a, c) == IF a >= 0 THEN a \div c ELSE -((-a) \div c)

\* mutant: one epoch too many, the last one past the stop bound
arange_overshoot(start, stop, step) ==
    LET n == IF stop > start THEN CeilDiv(stop - start, step) + 1 ELSE 0
    IN  [k \in 1..n |-> RatInt(start + (k - 1) * step)]

\* np.arange(start, stop, step) for step > 0: the epochs start + k step
\* that are below stop, ceil((stop - start) / step) of them
arange(start, stop, step) ==
    LET n == IF stop > start THEN CeilDiv(stop - start, step) ELSE 0
    IN  [k \in 1..n |-> RatInt(start + (k - 1) * step)]

\* the bodies main() samples, in call order
Bodies(s) ==
    CASE s = "vger" ->
           <<"-31", "-32", "VENUS", "EARTH", "JUPITER BARYCENTER",
             "SATURN BARYCENTER", "MERCURY", "MARS", "URANUS BARYCENTER",
             "NEPTUNE BARYCENTER", "PLUTO BARYCENTER">>
      [] s = "jwst" -> <<"-170">>
      [] s = "lucy" ->
           <<"-49", "EARTH", "JUPITER_BARYCENTER", "20000617", "20052246",
             "20011351", "20152830", "20015094", "920003548", "20021900">>
      [] s = "juice_cruise" -> <<"-28", "VENUS", "EARTH", "JUPITER">>
      [] s = "juice_jupiter" -> <<"-28", "GANYMEDE", "CALLISTO", "EUROPA">>
      [] s = "juice_ganymede" -> <<"-28">>
      [] OTHER -> <<"-47">>

\* the answer of sp.spkezr(body, et, frame, "NONE", center), named by the
\* query it answers; component c of it (1..3 position, 4..6 velocity)
query(body, et, frame, center) ==
    [targ |-> body, et |-> et, frame |-> frame, center |-> center]

Coord(st, c) == [st |-> st, c |-> c]

\* float(np.linalg.norm(st[3:6]))
Speed(st) == [st |-> st, c |-> "speed"]

\* sp.et2utc(et, 'C', 0): the calendar second et rounds to
et2utc(et) == [utc |-> RatFloor(RatAdd(et, Rat(1, 2)))]

\* trajectories the model draws for vger.py, in units of 10^9 km: x stays at
\* x0, y moves from y0 by dy a day, z stays 0
Profiles ==
    { [kind |-> "traj", x0 |-> 0, y0 |-> 5,  dy |-> 1],
      [kind |-> "traj", x0 |-> 0, y0 |-> -8, dy |-> 2],
      [kind |-> "traj", x0 |-> 0, y0 |-> 7,  dy |-> -1],
      [kind |-> "traj", x0 |-> 7, y0 |-> 0,  dy |-> 0] }

Flat == [kind |-> "traj", x0 |-> 0, y0 |-> 0, dy |-> 0]

\* trajectories the model draws for lucy.py, in units of 10^8 km: a body
\* that stays on the +X axis, and one off the axes that moves
LucyProfiles ==
    { [kind |-> "traj", x0 |-> 7, y0 |-> 0,  dy |-> 0],
      [kind |-> "traj", x0 |-> 3, y0 |-> -4, dy |-> 1] }

\* the number a queried coordinate holds under the ephemeris eph
Value(t) ==
    CASE t.c = 1 -> eph.x0
      [] t.c = 2 -> eph.y0 + eph.dy * RatFloor(RatDivInt(t.st.et, Day))
      [] OTHER   -> 0

Starts == {0, 1000}

\* window lengths (seconds) the model draws for each script
Windows(s) ==
    CASE s \in {"vger", "jwst", "lucy", "juice_cruise"} ->
           { k * Day + off : k \in 0..MaxDays, off \in {0, 1, 43200} }
      [] s = "juice_jupiter" ->
           { k * 5400 : k \in 0..(2 * MaxSteps) }
      [] s = "juice_ganymede" ->
           { k * 675 : k \in 0..MaxSteps } \cup {1000}
      [] OTHER ->
           { k * 600 : k \in 0..MaxSteps }

InitScripts ==
    /\ script \in Scripts
    /\ pc = "kernels"
    /\ eph \in (CASE script = "vger" -> Profiles
                  [] script = "lucy" -> LucyProfiles
                  [] OTHER           -> {Flat})
    /\ et_start \in Starts
    /\ et_end \in { et_start + w : w \in Windows(script) }
    /\ cover = None
    /\ total_pts = None
    /\ ets = <<>>
    /\ et_mid = None
    /\ call = 0
    /\ traces = <<>>
    /\ i = 0
    /\ targ = None
    /\ x = <<>> /\ y = <<>> /\ z = <<>>
    /\ vx = <<>> /\ vy = <<>> /\ vz = <<>>
    /\ speeds = <<>> /\ utcs = <<>>
    /\ ets_moon = <<>>
    /\ moon_x = <<>> /\ moon_y = <<>> /\ moon_z = <<>>
    /\ st_gw = None /\ st_moon = None /\ xfm = None
    /\ r_gw_embr = None /\ r_moon_embr = None
    /\ mid = None
    /\ loaded = <<>> /\ queried = FALSE
    /\ asked = {} /\ sc_asked = {}
    /\ derived = None
    /\ par = None
    /\ argv = <<>> /\ fs = None /\ viewer = FALSE /\ out = <<>> /\ err = None

\* main() fixes the number of samples n (and its mid epoch m) and goes on to
\* its sampler calls
SetCount(s, n, m) ==
    /\ script = s /\ pc = "window"
    /\ total_pts' = n
    /\ et_mid' = m
    /\ call' = 1
    /\ pc' = "sample"
    /\ UNCHANGED <<kernelVars, asked, sc_asked, derived, par, outputVars>>
    /\ UNCHANGED <<script, eph, windowVars, ets, traces, i, targ, listVars,
                   moonVars, embrVars>>

\* vger.py lines 67-69: ets = np.arange(et_start, et_end, 86400.0)
VgerGrid ==
    /\ script = "vger" /\ pc = "window"
    /\ ets' = arange(et_start, et_end, Day)
    /\ total_pts' = Len(ets')
    /\ call' = 1
    /\ pc' = "sample"
    /\ UNCHANGED <<kernelVars, asked, sc_asked, derived, par, outputVars>>
    /\ UNCHANGED <<script, eph, windowVars, et_mid, traces, i, targ, listVars,
                   moonVars, embrVars>>

\* mutant: the count of jwst.py rounded down instead of up
JwstCountFloor ==
    SetCount("jwst", TruncDiv(et_end - et_start, Day),
             RatDivInt(RatInt(et_start + et_end), 2))

\* jwst.py lines 70-77
JwstCount ==
    SetCount("jwst", CeilDiv(et_end - et_start, Day),
             RatDivInt(RatInt(et_start + et_end), 2))

\* lucy.py lines 96-99
LucyCount == SetCount("lucy", CeilDiv(et_end - et_start, Day), None)

\* mutant: the count of juice_cruise.py rounded up instead of down
JuiceCruiseCountCeil ==
    SetCount("juice_cruise", CeilDiv(et_end - et_start, Day), None)

\* juice_cruise.py line 85
JuiceCruiseCount ==
    SetCount("juice_cruise", TruncDiv(et_end - et_start, Day), None)

\* juice_jupiter.py line 89: 8 samples per day
JuiceJupiterCount ==
    SetCount("juice_jupiter", TruncDiv(8 * (et_end - et_start), Day), None)

\* juice_ganymede.py line 87: 256 samples per day
JuiceGanymedeCount ==
    SetCount("juice_ganymede", TruncDiv(256 * (et_end - et_start), Day), None)

\* genesis_halo_plot.py lines 74-82: 400 * 64 samples for each of the halo
\* cycles, of which 5 take 29.3 months of 30.436875 days:
\* ceil(W * 5 * 25600 / (29.3 * 2629746)) = ceil(W * 640000 / 385257789)
GenesisCount ==
    SetCount("genesis_halo_plot",
             CeilDiv((et_end - et_start) * 640000, 385257789),
             RatDivInt(RatInt(et_start + et_end), 2))

-----------------------------------------------------------------------------
(* The sampler functions *)

\* main() calls its sampler for the next body; the sampler builds
\* ets = np.linspace(et_start, et_start + period, npts) and empties its lists
SamplerCall(s) ==
    /\ script = s /\ pc = "sample"
    /\ call <= Len(Bodies(s))
    /\ targ' = Bodies(s)[call]
    /\ ets' = linspace(RatInt(et_start), RatInt(et_start + (et_end - et_start)),
                       total_pts)
    /\ i' = 0
    /\ x' = <<>> /\ y' = <<>> /\ z' = <<>>
    /\ vx' = <<>> /\ vy' = <<>> /\ vz' = <<>>
    /\ speeds' = <<>> /\ utcs' = <<>>
    /\ pc' = "loop"
    /\ UNCHANGED <<kernelVars, asked, sc_asked, derived, par, outputVars>>
    /\ UNCHANGED <<script, eph, windowVars, total_pts, et_mid, call, traces,
                   moonVars, embrVars>>

\* mutant: every iteration queries the first epoch of the grid
IterEpochFirst(k) == ets[1]

\* the epoch an iteration queries
IterEpoch(k) == ets[k]

\* one iteration of "for et in ets": query the state, append its
\* coordinates; the first call of main() samples the spacecraft, whose kernel
\* answers inside its coverage window and raises outside, which ends the run
SamplerIter(s, frame, center, withVelocity) ==
    /\ script = s /\ pc = "loop"
    /\ i < Len(ets)
    /\ IF call = 1 => InCoverage(IterEpoch(i + 1))
       THEN /\ LET st == query(targ, IterEpoch(i + 1), frame, center)
               IN  /\ x' = Append(x, Coord(st, 1))
                   /\ y' = Append(y, Coord(st, 2))
                   /\ z' = Append(z, Coord(st, 3))
                   /\ IF withVelocity
                      THEN /\ vx' = Append(vx, Coord(st, 4))
                           /\ vy' = Append(vy, Coord(st, 5))
                           /\ vz' = Append(vz, Coord(st, 6))
                      ELSE UNCHANGED <<vx, vy, vz>>
            /\ i' = i + 1
            /\ UNCHANGED <<pc, err>>
       ELSE /\ err' = spk_error
            /\ pc' = "aborted"
            /\ UNCHANGED <<i, x, y, z, vx, vy, vz>>
    /\ asked' = asked \cup {Asked(frame, center)}
    /\ sc_asked' = IF call = 1 THEN sc_asked \cup {IterEpoch(i + 1)} ELSE sc_asked
    /\ UNCHANGED <<kernelVars, derived, par, argv, fs, viewer, out>>
    /\ UNCHANGED <<script, eph, windowVars, total_pts, ets, et_mid, call,
                   traces, targ, speeds, utcs, moonVars, embrVars>>

\* the loop is over: the sampler returns its lists to main(), which goes on
\* to its next call, or to the stage after when this was the last body
SamplerReturn(s, after) ==
    /\ script = s /\ pc = "loop"
    /\ i = Len(ets)
    /\ traces' = Append(traces,
                        [targ |-> targ, ets |-> ets, x |-> x, y |-> y, z |-> z,
                         vx |-> vx, vy |-> vy, vz |-> vz,
                         speeds |-> speeds, utcs |-> utcs])
    /\ call' = call + 1
    /\ pc' = IF call = Len(Bodies(s)) THEN after ELSE "sample"
    /\ UNCHANGED <<kernelVars, asked, sc_asked, derived, par, outputVars>>
    /\ UNCHANGED <<script, eph, windowVars, total_pts, ets, et_mid, i, targ,
                   listVars, moonVars, embrVars>>

\* vger.py: sample_object(sc_id, ets) works on the grid main() built
VgerCall ==
    /\ script = "vger" /\ pc = "sample"
    /\ call <= Len(Bodies("vger"))
    /\ targ' = Bodies("vger")[call]
    /\ i' = 0
    /\ x' = <<>> /\ y' = <<>> /\ z' = <<>>
    /\ speeds' = <<>> /\ utcs' = <<>>
    /\ pc' = "loop"
    /\ UNCHANGED <<kernelVars, asked, sc_asked, derived, par, outputVars>>
    /\ UNCHANGED <<script, eph, windowVars, total_pts, ets, et_mid, call, traces,
                   vx, vy, vz, moonVars, embrVars>>

\* mutant: the filter compares with < instead of <=
keeps_strict(r) == Value(r[2]) < Threshold

\* mutant: a sample is kept only while the output list is still empty
keeps_first(r) == Value(r[2]) <= Threshold /\ Len(x) = 0

\* vger.py line 39: if r[1] <= 6e9
keeps(r) == Value(r[2]) <= Threshold

\* vger.py lines 36-44: one iteration of the filtering loop
VgerIter ==
    /\ script = "vger" /\ pc = "loop"
    /\ i < Len(ets)
    /\ LET et == ets[i + 1]
           st == query(targ, et, "VGER", "SUN")
           r  == <<Coord(st, 1), Coord(st, 2), Coord(st, 3)>>
       IN  IF keeps(r)
           THEN /\ x' = Append(x, r[1])
                /\ y' = Append(y, r[2])
                /\ z' = Append(z, r[3])
                /\ speeds' = Append(speeds, Speed(st))
                /\ utcs' = Append(utcs, et2utc(et))
           ELSE UNCHANGED <<x, y, z, speeds, utcs>>
    /\ i' = i + 1
    /\ asked' = asked \cup {Asked("VGER", "SUN")}
    /\ sc_asked' = IF call = 1 THEN sc_asked \cup {ets[i + 1]} ELSE sc_asked
    /\ UNCHANGED <<kernelVars, derived, par, outputVars>>
    /\ UNCHANGED <<script, pc, eph, windowVars, total_pts, ets, et_mid, call,
                   traces, targ, vx, vy, vz, moonVars, embrVars>>

VgerReturn == SamplerReturn("vger", "hover")

\* np.column_stack([a, b]): the two-dimensional array whose row k holds a[k]
\* and b[k]
column_stack(a, b) == [rows |-> [k \in 1..Len(a) |-> <<a[k], b[k]>>]]

\* mutant: the hover data is left out whatever the lengths
hover_custom_none(t) == None

\* vger.py lines 99 and 104: the hover data of a trace, None when its two
\* lists differ in length
hover_custom(t) ==
    IF Len(t.utcs) = Len(t.speeds) THEN column_stack(t.utcs, t.speeds) ELSE None

\* vger.py lines 98-108: the hover data of Voyager 1 and of Voyager 2, the
\* first two bodies sampled
VgerHover ==
    /\ script = "vger" /\ pc = "hover"
    /\ derived' = [voyager_custom |-> hover_custom(traces[1]),
                   v2_custom      |-> hover_custom(traces[2])]
    /\ pc' = "plot"
    /\ UNCHANGED <<kernelVars, asked, sc_asked, par, outputVars>>
    /\ UNCHANGED <<script, eph, windowVars, total_pts, ets, et_mid, call, traces,
                   i, targ, listVars, moonVars, embrVars>>

\* jwst.py lines 29-46 and 79
JwstCall == SamplerCall("jwst")
JwstIter == SamplerIter("jwst", "GSE", "EARTH", TRUE)
JwstReturn == SamplerReturn("jwst", "derive")

\* mutant: each timestamp is paired with the speed of the sample before
zip_offset(a, b) ==
    LET n == IF Len(a) <= Len(b) + 1 THEN Len(a) - 1 ELSE Len(b)
    IN  [k \in 1..n |-> <<a[k + 1], b[k]>>]

\* list(zip(a, b)): the pairs (a[k], b[k]), up to the end of the shorter list
zip(a, b) ==
    LET n == IF Len(a) <= Len(b) THEN Len(a) ELSE Len(b)
    IN  [k \in 1..n |-> <<a[k], b[k]>>]

\* jwst.py lines 133-139, lucy.py lines 134-139: the timestamp of every
\* epoch, the speed of every sample of the trace t, and their pairs
hover_data(epochs, t) ==
    LET utc_times == [k \in 1..Len(epochs) |-> et2utc(epochs[k])]
        norms     == [k \in 1..Len(t.vx) |-> Norm(<<t.vx[k], t.vy[k], t.vz[k]>>)]
    IN  [utc_times |-> utc_times, speeds |-> norms,
         customdata |-> zip(utc_times, norms)]

\* lucy.py lines 22-40, 104-106 and 120-122
LucyCall == SamplerCall("lucy")
LucyIter == SamplerIter("lucy", "HJB", "SUN", TRUE)
LucyReturn == SamplerReturn("lucy", "derive")

\* np.cos(np.deg2rad(60.0)) and np.sin(np.deg2rad(60.0)): a number
\* (a + b sqrt(3)) / 2 is held as the integers a and b
cos_t == [a |-> 1, b |-> 0]

sin_t == [a |-> 0, b |-> 1]

\* k * q, q + r and q - r on such numbers
Q3Mul(k, q) == [a |-> k * q.a, b |-> k * q.b]

Q3Add(q, r) == [a |-> q.a + r.a, b |-> q.b + r.b]

Q3Sub(q, r) == [a |-> q.a - r.a, b |-> q.b - r.b]

\* lucy.py lines 65-67: rotate by -theta for L5
rotate_l5(xi, yi, zi) ==
    [x |-> Q3Add(Q3Mul(Value(xi), cos_t), Q3Mul(Value(yi), sin_t)),
     y |-> Q3Add(Q3Mul(-Value(xi), sin_t), Q3Mul(Value(yi), cos_t)),
     z |-> zi]

\* mutant: L4 rotated by -theta, as L5 is
rotate_l4_trailing(xi, yi, zi) == rotate_l5(xi, yi, zi)

\* lucy.py lines 60-62: rotate (xi, yi) by +theta for L4
rotate_l4(xi, yi, zi) ==
    [x |-> Q3Sub(Q3Mul(Value(xi), cos_t), Q3Mul(Value(yi), sin_t)),
     y |-> Q3Add(Q3Mul(Value(xi), sin_t), Q3Mul(Value(yi), cos_t)),
     z |-> zi]

\* lucy.py lines 43-72: for xi, yi, zi in zip(jx, jy, jz), one L4 and one L5
\* point appended per sample
compute_l4_l5_from_jupiter(jx, jy, jz) ==
    LET n == IF Len(jx) <= Len(jy)
             THEN (IF Len(jx) <= Len(jz) THEN Len(jx) ELSE Len(jz))
             ELSE (IF Len(jy) <= Len(jz) THEN Len(jy) ELSE Len(jz))
    IN  [l4 |-> [k \in 1..n |-> rotate_l4(jx[k], jy[k], jz[k])],
         l5 |-> [k \in 1..n |-> rotate_l5(jx[k], jy[k], jz[k])]]

\* lucy.py lines 124-126: L4 and L5 from the samples of the Jupiter
\* barycenter, the third body sampled
LucyTrojans ==
    /\ script = "lucy" /\ pc = "derive"
    /\ LET res == compute_l4_l5_from_jupiter(traces[3].x, traces[3].y, traces[3].z)
       IN  derived' = [l4 |-> res.l4, l5 |-> res.l5]
    /\ pc' = "hover"
    /\ UNCHANGED <<kernelVars, asked, sc_asked, par, outputVars>>
    /\ UNCHANGED <<script, eph, windowVars, total_pts, ets, et_mid, call, traces,
                   i, targ, listVars, moonVars, embrVars>>

\* lucy.py lines 134-139: the hover data of the probe, from the epochs and
\* the velocities its sampler call returned, the first of main()
LucyHover ==
    /\ script = "lucy" /\ pc = "hover"
    /\ LET h == hover_data(traces[1].ets, traces[1])
       IN  derived' = [l4 |-> derived.l4, l5 |-> derived.l5,
                       utc_times  |-> h.utc_times,
                       speeds     |-> h.speeds,
                       customdata |-> h.customdata]
    /\ pc' = "intercepts"
    /\ UNCHANGED <<kernelVars, asked, sc_asked, par, outputVars>>
    /\ UNCHANGED <<script, eph, windowVars, total_pts, ets, et_mid, call, traces,
                   i, targ, listVars, moonVars, embrVars>>

\* the flyby markers of lucy.py, lines 190-201: body and calendar date
Intercepts ==
    << <<"EARTH", "2022-10-16T00:00:00">>, <<"20152830", "2023-11-01T00:00:00">>,
       <<"EARTH", "2024-12-13T00:00:00">>, <<"20052246", "2025-04-20T00:00:00">>,
       <<"920003548", "2027-08-12T00:00:00">>, <<"20015094", "2027-09-15T00:00:00">>,
       <<"20011351", "2028-04-18T00:00:00">>, <<"20021900", "2028-11-11T00:00:00">>,
       <<"EARTH", "2030-12-26T00:00:00">>, <<"20000617", "2033-03-02T00:00:00">> >>

\* sp.str2et(utc_str): the epoch of a calendar date, held by name
str2et(utc_str) == [utc |-> utc_str]

\* lucy.py lines 202-210: the state of each flyby body at its date
LucyIntercepts ==
    /\ script = "lucy" /\ pc = "intercepts"
    /\ derived' = [l4 |-> derived.l4, l5 |-> derived.l5,
                   utc_times  |-> derived.utc_times,
                   speeds     |-> derived.speeds,
                   customdata |-> derived.customdata,
                   intercepts |->
                       [k \in 1..Len(Intercepts) |->
                           query(Intercepts[k][1], str2et(Intercepts[k][2]),
                                 "HJB", "SUN")]]
    /\ asked' = asked \cup {Asked("HJB", "SUN")}
    /\ UNCHANGED sc_asked
    /\ pc' = "plot"
    /\ UNCHANGED <<kernelVars, par, outputVars>>
    /\ UNCHANGED <<script, eph, windowVars, total_pts, ets, et_mid, call, traces,
                   i, targ, listVars, moonVars, embrVars>>

\* juice_cruise.py lines 43-55 and 90-93
JuiceCruiseCall == SamplerCall("juice_cruise")
JuiceCruiseIter == SamplerIter("juice_cruise", "JUICE", "SUN", FALSE)
JuiceCruiseReturn == SamplerReturn("juice_cruise", "plot")

\* juice_jupiter.py lines 46-58 and 94-97
JuiceJupiterCall == SamplerCall("juice_jupiter")
JuiceJupiterIter == SamplerIter("juice_jupiter", "JUICE", "JUPITER", FALSE)
JuiceJupiterReturn == SamplerReturn("juice_jupiter", "plot")

\* juice_ganymede.py lines 46-58 and 92
JuiceGanymedeCall == SamplerCall("juice_ganymede")
JuiceGanymedeIter == SamplerIter("juice_ganymede", "JUICE", "GANYMEDE", FALSE)
JuiceGanymedeReturn == SamplerReturn("juice_ganymede", "plot")

\* genesis_halo_plot.py lines 29-41 and 84
GenesisCall == SamplerCall("genesis_halo_plot")
GenesisIter == SamplerIter("genesis_halo_plot", "GSE", "EARTH", FALSE)
GenesisReturn == SamplerReturn("genesis_halo_plot", "derive")

\* mutant: the Moon asked for relative to the Earth-Moon barycenter in J2000
MoonStateBarycentric(et) == query("MOON", et, "J2000", "EMB")

\* the body each sampler script draws at the origin of its scene
origin_body(s) ==
    CASE s \in {"vger", "lucy", "juice_cruise"} -> "SUN"
      [] s = "juice_jupiter"                     -> "JUPITER"
      [] s = "juice_ganymede"                    -> "GANYMEDE"
      [] OTHER                                   -> "EARTH"

\* the Moon as jwst.py and genesis_halo_plot.py ask for it
MoonState(et) == query("MOON", et, "GSE", "EARTH")

\* jwst.py lines 82-105, genesis_halo_plot.py lines 87-110: the Moon at the
\* mid epoch, and one lunar cycle of 31 days around the mid epoch, sampled
\* at n_lunar epochs
LunarCycle(s) ==
    /\ script = s /\ pc = "derive"
    /\ derived' = [st_moon_mid |-> MoonState(et_mid)]
    /\ LET lunar_period  == 31 * Day
           et_moon_start == RatSub(et_mid, RatDivInt(RatInt(lunar_period), 2))
           et_moon_end   == RatAdd(et_mid, RatDivInt(RatInt(lunar_period), 2))
           g             == linspace(et_moon_start, et_moon_end, NLunar)
       IN  /\ ets_moon' = g
           /\ moon_x' = [k \in 1..Len(g) |-> Coord(MoonState(g[k]), 1)]
           /\ moon_y' = [k \in 1..Len(g) |-> Coord(MoonState(g[k]), 2)]
           /\ moon_z' = [k \in 1..Len(g) |-> Coord(MoonState(g[k]), 3)]
    /\ pc' = "hill"
    /\ asked' = asked \cup {Asked(MoonState(et_mid).frame, MoonState(et_mid).center)}
    /\ UNCHANGED sc_asked
    /\ UNCHANGED <<kernelVars, par, outputVars>>
    /\ UNCHANGED <<script, eph, windowVars, total_pts, ets, et_mid, call, traces,
                   i, targ, listVars, embrVars>>

JwstLunarCycle == LunarCycle("jwst")

GenesisLunarCycle == LunarCycle("genesis_halo_plot")

\* mutant: the Sun is asked for at the mid epoch whatever the epoch given
SunStateMid(et) == query("SUN", et_mid, "GSE", "EARTH")

\* the Sun as jwst.py and genesis_halo_plot.py ask for it
SunState(et) == query("SUN", et, "GSE", "EARTH")

\* np.mean(a): the sum of the entries over their number; NaN (with a
\* warning) for an empty array
np_mean(a) == IF Len(a) = 0 THEN NaN ELSE [sum |-> a, n |-> Len(a)]

\* jwst.py lines 107-126: the Sun distance and the L2 estimate at every
\* epoch of the grid, rebuilt from the window, and their mean
JwstHill ==
    /\ script = "jwst" /\ pc = "hill"
    /\ LET g          == linspace(RatInt(et_start), RatInt(et_end), total_pts)
           R_se_list  == [k \in 1..Len(g) |-> Norm(SunState(g[k]))]
           d_SE_L_arr == [k \in 1..Len(g) |->
                             hill_distance(R_se_list[k], gm_earth, gm_sun)]
       IN  /\ ets' = g
           /\ derived' = [st_moon_mid |-> derived.st_moon_mid,
                          R_se_list   |-> R_se_list,
                          d_SE_L_arr  |-> d_SE_L_arr,
                          l2_x        |-> d_SE_L_arr,
                          l2_y        |-> [k \in 1..Len(g) |-> 0],
                          l2_z        |-> [k \in 1..Len(g) |-> 0],
                          l2_mean     |-> <<np_mean(d_SE_L_arr), 0, 0>>]
    /\ asked' = asked \cup {Asked("GSE", "EARTH")}
    /\ UNCHANGED sc_asked
    /\ pc' = "hover"
    /\ UNCHANGED <<kernelVars, par, outputVars>>
    /\ UNCHANGED <<script, eph, windowVars, total_pts, et_mid, call, traces,
                   i, targ, listVars, moonVars, embrVars>>

\* jwst.py lines 133-139: the hover data of the spacecraft, from the epochs
\* rebuilt at line 110 and the velocities the sampler returned
JwstHover ==
    /\ script = "jwst" /\ pc = "hover"
    /\ LET h == hover_data(ets, traces[1])
       IN  derived' = [st_moon_mid |-> derived.st_moon_mid,
                       R_se_list   |-> derived.R_se_list,
                       d_SE_L_arr  |-> derived.d_SE_L_arr,
                       l2_x        |-> derived.l2_x,
                       l2_y        |-> derived.l2_y,
                       l2_z        |-> derived.l2_z,
                       l2_mean     |-> derived.l2_mean,
                       utc_times   |-> h.utc_times,
                       speeds      |-> h.speeds,
                       customdata  |-> h.customdata]
    /\ pc' = "plot"
    /\ UNCHANGED <<kernelVars, asked, sc_asked, par, outputVars>>
    /\ UNCHANGED <<script, eph, windowVars, total_pts, ets, et_mid, call, traces,
                   i, targ, listVars, moonVars, embrVars>>

\* genesis_halo_plot.py lines 112-119: the Sun distance at the mid epoch and
\* the L1 and L2 estimates
GenesisHill ==
    /\ script = "genesis_halo_plot" /\ pc = "hill"
    /\ LET st_sun_mid == SunState(et_mid)
           R_se       == Norm(st_sun_mid)
           d_SE_L     == hill_distance(R_se, gm_earth, gm_sun)
       IN  derived' = [st_moon_mid |-> derived.st_moon_mid,
                       st_sun_mid  |-> st_sun_mid,
                       R_se        |-> R_se,
                       d_SE_L      |-> d_SE_L,
                       l1          |-> <<[minus |-> d_SE_L], 0, 0>>,
                       l2          |-> <<d_SE_L, 0, 0>>]
    /\ asked' = asked \cup {Asked("GSE", "EARTH")}
    /\ UNCHANGED sc_asked
    /\ pc' = "plot"
    /\ UNCHANGED <<kernelVars, par, outputVars>>
    /\ UNCHANGED <<script, eph, windowVars, total_pts, ets, et_mid, call, traces,
                   i, targ, listVars, moonVars, embrVars>>

\* main() of the sampler scripts up to the return of its last sampler call
SamplingSteps ==
    \/ VgerGrid \/ VgerCall \/ VgerIter \/ VgerReturn
    \/ JwstCount \/ JwstCall \/ JwstIter \/ JwstReturn
    \/ LucyCount \/ LucyCall \/ LucyIter \/ LucyReturn
    \/ JuiceCruiseCount \/ JuiceCruiseCall \/ JuiceCruiseIter \/ JuiceCruiseReturn
    \/ JuiceJupiterCount \/ JuiceJupiterCall \/ JuiceJupiterIter \/ JuiceJupiterReturn
    \/ JuiceGanymedeCount \/ JuiceGanymedeCall \/ JuiceGanymedeIter
    \/ JuiceGanymedeReturn
    \/ GenesisCount \/ GenesisCall \/ GenesisIter \/ GenesisReturn

ScriptSteps ==
    \/ SamplingSteps
    \/ VgerHover
    \/ JwstLunarCycle \/ JwstHill \/ JwstHover
    \/ LucyTrojans \/ LucyHover \/ LucyIntercepts
    \/ GenesisLunarCycle \/ GenesisHill

NextScripts == Lifecycle \/ ScriptSteps

SpecScripts == InitScripts /\ [][NextScripts]_vars

\* every script
Init == InitNrho \/ InitScripts \/ InitTest

Next == Lifecycle \/ NrhoSteps \/ ScriptSteps \/ TestSteps

Spec == Init /\ [][Next]_vars

\* test_transform.py alone: its kernel loads and the basis built by hand
NextTest == Furnsh \/ Coverage \/ TestSteps

SpecTest == InitTest /\ [][NextTest]_vars

\* the sampler scripts, the interpreter going on to the next statement as
\* long as there is one
SpecLive == SpecScripts /\ WF_vars(NextScripts)

-----------------------------------------------------------------------------
(* The per-epoch loops, their iterations run in any order *)

\* how far ahead of the oldest unfinished epoch an iteration may run
MaxPar == 3

\* the scripts with a per-epoch sampling loop
LoopScripts == {"nrho_plot"} \cup Scripts

\* the frame and center each sampler passes to sp.spkezr, and whether it
\* keeps the velocity components
LoopArgs(s) ==
    CASE s = "jwst" -> [frame |-> "GSE", center |-> "EARTH", vel |-> TRUE]
      [] s = "lucy" -> [frame |-> "HJB", center |-> "SUN", vel |-> TRUE]
      [] s = "juice_cruise" -> [frame |-> "JUICE", center |-> "SUN", vel |-> FALSE]
      [] s = "juice_jupiter" ->
            [frame |-> "JUICE", center |-> "JUPITER", vel |-> FALSE]
      [] s = "juice_ganymede" ->
            [frame |-> "JUICE", center |-> "GANYMEDE", vel |-> FALSE]
      [] OTHER -> [frame |-> "GSE", center |-> "EARTH", vel |-> FALSE]

\* what one iteration appends to each output list
Appends(ax, ay, az, avx, avy, avz, aspeeds, autcs) ==
    [x |-> ax, y |-> ay, z |-> az, vx |-> avx, vy |-> avy, vz |-> avz,
     speeds |-> aspeeds, utcs |-> autcs]

\* the body of "for et in ets" of an unfiltered sampler, for the k-th epoch
sample_body(s, k) ==
    LET a  == LoopArgs(s)
        st == query(targ, IterEpoch(k), a.frame, a.center)
    IN  Appends(<<Coord(st, 1)>>, <<Coord(st, 2)>>, <<Coord(st, 3)>>,
                IF a.vel THEN <<Coord(st, 4)>> ELSE <<>>,
                IF a.vel THEN <<Coord(st, 5)>> ELSE <<>>,
                IF a.vel THEN <<Coord(st, 6)>> ELSE <<>>,
                <<>>, <<>>)

\* vger.py lines 36-44: the body of the filtering loop, for the k-th epoch
vger_body(k) ==
    LET et == ets[k]
        st == query(targ, et, "VGER", "SUN")
        r  == <<Coord(st, 1), Coord(st, 2), Coord(st, 3)>>
    IN  IF keeps(r)
        THEN Appends(<<r[1]>>, <<r[2]>>, <<r[3]>>, <<>>, <<>>, <<>>,
                     <<Speed(st)>>, <<et2utc(et)>>)
        ELSE Appends(<<>>, <<>>, <<>>, <<>>, <<>>, <<>>, <<>>, <<>>)

\* nrho_plot.py lines 87-102: the body of the sampling loop, for the k-th
\* epoch
nrho_body(k) ==
    LET et   == ets[k]
        gw   == spkezr("-60000", et, "J2000", "EMB")
        moon == spkezr("MOON", et, "J2000", "EMB")
        m    == get_embr_transform(LoopXfmEpoch(et))
        r_mc == Sub3(MatVec(m, gw), MatVec(m, moon))
    IN  Appends(<<r_mc[1]>>, <<r_mc[2]>>, <<r_mc[3]>>, <<>>, <<>>, <<>>,
                <<>>, <<>>)

\* the loop body of script s, for the k-th epoch of the grid
LoopBody(s, k) ==
    CASE s = "nrho_plot" -> nrho_body(k)
      [] s = "vger"      -> vger_body(k)
      [] OTHER           -> sample_body(s, k)

\* the reordered run of the sampler call in progress: slots[k] is what the
\* iteration of the k-th epoch produced, for the epochs whose iteration ran
ParRun ==
    IF par /= None /\ par.call = call
    THEN par
    ELSE [call |-> call, slots |-> [k \in {} |-> None], reordered |-> FALSE]

\* the epochs whose iteration has not run
Unfinished == (1..Len(ets)) \ DOMAIN ParRun.slots

\* every iteration of the reordered run has run
ParDone == Unfinished = {}

\* the oldest epoch whose iteration has not run
Oldest == CHOOSE k \in Unfinished : \A j \in Unfinished : k <= j

\* once the sequential loop is over, the iteration of some unfinished epoch
\* runs again on the same grid, and its result goes to the slot of its epoch
ParIter ==
    /\ script \in LoopScripts /\ pc = "loop"
    /\ i = Len(ets)
    /\ \E k \in Unfinished :
          /\ k < Oldest + MaxPar
          /\ par' = [call      |-> call,
                     slots     |-> [j \in DOMAIN ParRun.slots \cup {k} |->
                                       IF j = k THEN LoopBody(script, k)
                                       ELSE ParRun.slots[j]],
                     reordered |-> ParRun.reordered \/ k /= Oldest]
    /\ UNCHANGED <<kernelVars, asked, sc_asked, derived, outputVars>>
    /\ UNCHANGED <<script, pc, eph, windowVars, total_pts, ets, et_mid, call,
                   traces, i, targ, listVars, moonVars, embrVars>>

\* the stage after the loop starts when both runs of the loop are over
Joined == (pc = "loop" /\ pc' /= "loop") => ParDone

\* the ephemerides nrho_plot.py runs its loop both ways on: the circular
\* orbits, and the rectilinear motions along +Y (r parallel to v and r = 0
\* among them)
ParEphemerides ==
    { e \in Ephemerides : e.kind = "circ" \/ e.v0 = <<0, 1, 0>> }

InitPar == (InitNrho /\ eph \in ParEphemerides) \/ InitScripts

\* the steps of a script up to the end of its sampling stage
ToSampled == Furnsh \/ Coverage \/ NrhoGrid \/ NrhoLoop \/ SamplingSteps

NextPar == ParIter \/ (ToSampled /\ Joined)

\* the scripts with a sampling loop up to the end of their sampling stage,
\* the loop run in both ways
SpecPar == InitPar /\ [][NextPar]_vars

-----------------------------------------------------------------------------
(* Properties of the rotating frame *)

\* r x v /= 0
NonParallel(r, v) == r.d > 0 /\ v.d > 0 /\ Cross3(r.n, v.n) /= <<0, 0, 0>>

UnitLength(a) == a.d > 0 /\ Dot3(a.n, a.n) = a.d

Orthogonal(a, b) == a.d > 0 /\ b.d > 0 /\ Dot3(a.n, b.n) = 0

\* |vec| as a real: sqrt(n.n / d) = n.n / sqrt(n.n * d)
norm(vec) ==
    IF vec.d = 0 THEN NaN
    ELSE IF NormSqN(vec) = 0 THEN [n |-> 0, d |-> 1]
    ELSE [n |-> NormSqN(vec), d |-> NormSqN(vec) * vec.d]

\* the Moon state a matrix was built from
BuiltFrom(m) == spkezr("MOON", m.et, "J2000", "EMB")

\* every matrix the run holds
Matrices ==
    (IF xfm = None THEN {} ELSE {xfm}) \cup (IF mid = None THEN {} ELSE {mid.xfm_mid})

\* every product xfm @ r the run holds, with the state whose position was rotated
Products ==
    (IF r_gw_embr = None THEN {}
     ELSE {[p |-> r_gw_embr, st |-> st_gw], [p |-> r_moon_embr, st |-> st_moon]})
    \cup
    (IF mid = None THEN {}
     ELSE {[p |-> mid.r_earth_embr, st |-> mid.st_earth_mid],
           [p |-> mid.r_moon_embr_mid, st |-> mid.st_moon_mid]})

\* C1: for every non-parallel (r, v) the basis X = normalize(r),
\* Z = normalize(r x v), Y = Z x X that the construction returns is pairwise
\* orthogonal, of unit length, and right-handed (X x Y = Z).
C1_Orthonormal ==
    \A m \in Matrices :
        NonParallel(BuiltFrom(m).r, BuiltFrom(m).v) =>
            /\ \A k \in 1..3 : UnitLength(m.rows[k])
            /\ Orthogonal(m.rows[1], m.rows[2])
            /\ Orthogonal(m.rows[1], m.rows[3])
            /\ Orthogonal(m.rows[2], m.rows[3])
            /\ VecEq(cross(m.rows[1], m.rows[2]), m.rows[3])

\* a matrix was built from a state with r x v /= 0 that lies on no coordinate
\* axis or plane
C1_Witness ==
    /\ xfm /= None
    /\ NonParallel(BuiltFrom(xfm).r, BuiltFrom(xfm).v)
    /\ \A k \in 1..3 : BuiltFrom(xfm).r.n[k] /= 0
    /\ \A k \in 1..3 : xfm.rows[3].n[k] /= 0

\* the products of a matrix with the position of the Moon it was built from
OwnProducts ==
    { q \in Products : q.st.targ = "MOON" /\ q.p.mat_et = q.st.et }

\* C2: for every non-parallel (r, v), the matrix built from (r, v) applied to
\* r itself gives Y = Z = 0 and X = |r|.
C2_ReferenceOnX ==
    \A q \in OwnProducts :
        NonParallel(q.st.r, q.st.v) =>
            /\ ScEq(q.p.val[1], norm(q.st.r))
            /\ ScIsZero(q.p.val[2])
            /\ ScIsZero(q.p.val[3])

\* the Moon's position, off every axis, was rotated by its own matrix, in the
\* loop and at the mid epoch
C2_Witness ==
    /\ mid /= None
    /\ NonParallel(st_moon.r, st_moon.v)
    /\ NonParallel(mid.st_moon_mid.r, mid.st_moon_mid.v)
    /\ \A k \in 1..3 : st_moon.r.n[k] /= 0
    /\ r_moon_embr.val[1].n > 0

\* C3: every rotation matrix is applied only to states queried at the epoch
\* the matrix was built for: in the loop the matrix is rebuilt for the epoch
\* of the iteration, and the mid-epoch matrix meets only states of et_mid.
C3_MatrixEpoch ==
    /\ \A q \in Products : q.p.mat_et = q.st.et /\ q.p.st_et = q.st.et
    /\ r_gw_embr /= None =>
          /\ xfm.et = ets[i]
          /\ st_gw.et = ets[i]
          /\ st_moon.et = ets[i]
    /\ mid /= None =>
          /\ mid.xfm_mid.et = et_mid
          /\ mid.st_earth_mid.et = et_mid
          /\ mid.st_moon_mid.et = et_mid

\* the loop has run over several epochs and the mid-epoch references were
\* built with a matrix of another epoch than the loop's last one
C3_Witness ==
    /\ mid /= None
    /\ i >= 3
    /\ xfm.et /= mid.xfm_mid.et
    /\ xfm.et = ets[Len(ets)]

\* C4: on a synthetic circular orbit of radius R in the XY plane (angular
\* momentum +Z), the frame built from the body's own (r, v) at each sample
\* puts that sample's position at (R, 0, 0).
C4_StationaryTrace ==
    (eph.kind = "circ" /\ r_moon_embr /= None) =>
        /\ ScEq(r_moon_embr.val[1], [n |-> eph.R, d |-> 1])
        /\ ScIsZero(r_moon_embr.val[2])
        /\ ScIsZero(r_moon_embr.val[3])

\* a full revolution of the circular orbit has been sampled, the last sample
\* in the third quadrant's direction being off the axes
C4_Witness ==
    /\ eph.kind = "circ"
    /\ i >= 9
    /\ i = Len(ets)
    /\ CellOf(ets[i]) - CellOf(ets[1]) >= 8
    /\ r_moon_embr /= None

\* C5 (as claimed): when r and v are parallel the construction reports a
\* failure and returns no basis, so that no NaN matrix is ever held or applied.
C5_FailsFast ==
    \A m \in Matrices :
        /\ NonParallel(BuiltFrom(m).r, BuiltFrom(m).v)
        /\ \A k \in 1..3 : m.rows[k].d > 0

-----------------------------------------------------------------------------
(* Properties of the time grids *)

DailyScripts == {"vger", "jwst", "lucy", "juice_cruise"}

Window == et_end - et_start

\* the run has not come to build its grid: it is loading kernels, reading
\* the coverage window, or it ended on a kernel that would not load
PreGrid ==
    \/ pc \in {"kclear", "kernels", "cover", "window", "grid"}
    \/ pc = "aborted" /\ err.raised = "furnsh"

\* ets holds the grid of the running sampler script
GridBuilt ==
    /\ script \in Scripts
    /\ IF script = "vger" THEN ~PreGrid ELSE (pc = "loop" \/ call > 1)

GridWithin(g, lo, hi) ==
    /\ Len(g) >= 1 => g[1] = lo
    /\ \A k \in 1..(Len(g) - 1) : RatLess(g[k], g[k + 1])
    /\ \A k \in 1..Len(g) : RatLeq(g[k], hi)

\* C7: every time grid built with start < end begins at the start bound, is
\* strictly increasing and holds no epoch beyond the end bound.
C7_GridWithinBounds ==
    /\ (GridBuilt /\ et_start < et_end) =>
          GridWithin(ets, RatInt(et_start), RatInt(et_end))
    /\ (script = "nrho_plot" /\ ~PreGrid) =>
          GridWithin(ets, RatInt(et_start), RatInt(et_start + period))
    /\ ets_moon /= <<>> =>
          GridWithin(ets_moon,
                     RatSub(et_mid, RatInt(31 * 43200)),
                     RatAdd(et_mid, RatInt(31 * 43200)))

\* np.arange has stepped to its last epoch, less than a day short of an end
\* bound it must not reach
C7_Witness ==
    /\ script = "vger" /\ pc = "loop"
    /\ Len(ets) >= 3
    /\ RatLess(ets[Len(ets)], RatInt(et_end))
    /\ RatLess(RatInt(et_end - Day), ets[Len(ets)])

\* C8 (as claimed): in every daily script consecutive epochs are exactly
\* 86400 s apart, stepping forward from the start bound.
C8_DailyStep ==
    (GridBuilt /\ script \in DailyScripts) =>
        \A k \in 1..Len(ets) : ets[k] = RatInt(et_start + (k - 1) * Day)

\* C8 (amended): in vger.py consecutive epochs are exactly 86400 s apart,
\* stepping forward from the start bound; in juice_cruise.py, jwst.py and
\* lucy.py the total_pts epochs are spread evenly from the start bound to the
\* end bound inclusive, (end - start) / (total_pts - 1) apart, which is more
\* than 86400 s.
C8_Step ==
    (GridBuilt /\ script \in DailyScripts) =>
        IF script = "vger"
        THEN \A k \in 1..Len(ets) : ets[k] = RatInt(et_start + (k - 1) * Day)
        ELSE Len(ets) >= 2 =>
               LET step == Rat(Window, Len(ets) - 1)
               IN  /\ ets[1] = RatInt(et_start)
                   /\ ets[Len(ets)] = RatInt(et_end)
                   /\ \A k \in 1..(Len(ets) - 1) :
                          RatSub(ets[k + 1], ets[k]) = step
                   /\ RatLess(RatInt(Day), step)

\* juice_cruise.py has spread 10 epochs over a window of exactly ten days
C8_Witness ==
    /\ script = "juice_cruise" /\ pc = "loop"
    /\ Window = 10 * Day
    /\ Len(ets) = 10
    /\ RatSub(ets[2], ets[1]) = RatInt(96000)

-----------------------------------------------------------------------------
(* Properties of the samplers *)

FrameNames == {"GSE", "HJB", "JUICE", "VGER", "J2000"}

CenterNames == {"EARTH", "SUN", "JUPITER", "GANYMEDE", "EMB"}

\* list l holds component c of the states of body at the first Len(l)
\* epochs of grid g, in frame f relative to center
FromGrid(l, body, g, f, center, c) ==
    /\ Len(l) <= Len(g)
    /\ \A k \in 1..Len(l) : l[k] = Coord(query(body, g[k], f, center), c)

\* the grid the unfiltered samplers build from the arguments main() passes
CallGrid == linspace(RatInt(et_start), RatInt(et_end), total_pts)

\* C9: each unfiltered sampler returns coordinate lists of exactly npts
\* entries, entry k being taken from the one state queried at the k-th epoch
\* of the grid, in one frame and relative to one center for the sampler.
C9_OnePerEpoch ==
    (script \in Scripts \ {"vger"} /\ ~PreGrid) =>
        \E f \in FrameNames, center \in CenterNames :
            /\ \A n \in 1..Len(traces) :
                  LET t == traces[n]
                  IN  /\ Len(t.x) = total_pts
                      /\ Len(t.y) = total_pts
                      /\ Len(t.z) = total_pts
                      /\ FromGrid(t.x, t.targ, CallGrid, f, center, 1)
                      /\ FromGrid(t.y, t.targ, CallGrid, f, center, 2)
                      /\ FromGrid(t.z, t.targ, CallGrid, f, center, 3)
                      /\ script \in {"jwst", "lucy"} =>
                            /\ Len(t.vx) = total_pts
                            /\ Len(t.vy) = total_pts
                            /\ Len(t.vz) = total_pts
                            /\ FromGrid(t.vx, t.targ, CallGrid, f, center, 4)
                            /\ FromGrid(t.vy, t.targ, CallGrid, f, center, 5)
                            /\ FromGrid(t.vz, t.targ, CallGrid, f, center, 6)
            /\ pc = "loop" =>
                  /\ Len(x) = i /\ Len(y) = i /\ Len(z) = i
                  /\ FromGrid(x, targ, CallGrid, f, center, 1)
                  /\ FromGrid(y, targ, CallGrid, f, center, 2)
                  /\ FromGrid(z, targ, CallGrid, f, center, 3)

\* a sampler has returned for several bodies with three epochs or more each
C9_Witness ==
    /\ script = "juice_jupiter"
    /\ pc = "plot"
    /\ Len(traces) = 4
    /\ total_pts >= 3
    /\ traces[2].x /= traces[1].x
    /\ traces[1].x[2] /= traces[1].x[1]

\* the epochs among the first n of the grid whose sample passes Keep
KeptEpochs(n, Keep(_)) == SelectSeq(SubSeq(ets, 1, n), Keep)

VgerState(body, et) == query(body, et, "VGER", "SUN")

\* the lists of the filtering sampler hold the samples of the epochs kept,
\* in epoch order
HoldsKept(t, body, kept) ==
    /\ t.x = [k \in 1..Len(kept) |-> Coord(VgerState(body, kept[k]), 1)]
    /\ t.y = [k \in 1..Len(kept) |-> Coord(VgerState(body, kept[k]), 2)]
    /\ t.z = [k \in 1..Len(kept) |-> Coord(VgerState(body, kept[k]), 3)]

Running == [targ |-> targ, x |-> x, y |-> y, z |-> z]

\* C10 (as claimed): a sample is dropped exactly when the magnitude of one
\* of its position coordinates exceeds the threshold.
C10_DropsOnAnyMagnitude ==
    (script = "vger" /\ pc = "loop") =>
        HoldsKept(Running, targ,
                  KeptEpochs(i, LAMBDA e :
                      \A c \in 1..3 :
                          Abs(Value(Coord(VgerState(targ, e), c))) <= Threshold))

\* C10 (amended): a sample is dropped exactly when its Y coordinate, taken
\* with its sign, exceeds the threshold (y > 6e9 km); every other sample is
\* kept, in epoch order, whatever its X and Z and however negative its Y.
C10_DropsOnY ==
    script = "vger" =>
        /\ pc = "loop" =>
              HoldsKept(Running, targ,
                        KeptEpochs(i, LAMBDA e :
                            Value(Coord(VgerState(targ, e), 2)) <= Threshold))
        /\ \A n \in 1..Len(traces) :
              HoldsKept(traces[n], traces[n].targ,
                        KeptEpochs(Len(ets), LAMBDA e :
                            Value(Coord(VgerState(traces[n].targ, e), 2))
                                <= Threshold))

\* the filtering loop is over, having kept a sample at the threshold itself
\* and dropped others
C10_Witness ==
    /\ script = "vger" /\ pc = "loop"
    /\ i = Len(ets)
    /\ Len(x) >= 2
    /\ Len(x) < i
    /\ \E k \in 1..Len(y) : Value(y[k]) = Threshold

-----------------------------------------------------------------------------
(* Properties of the output stage *)

\* this run has written the file at path
Written(path) == fs /= None /\ Fresh(path) \in fs.files

Printed(line) == \E n \in 1..Len(out) : out[n] = line

\* the command line read holds the literal argument "--static"
HasStaticArg == \E n \in DOMAIN argv : argv[n] = "--static"

\* write_image was reached and wrote nothing: the rasterizer failed
ImageFailed ==
    /\ script \in ImageScripts
    /\ HasStaticArg
    /\ Written(html_path(script))
    /\ pc \in {"done", "aborted"}
    /\ ~Written(png_path(script))

\* C11: in static mode, when write_image raises, the run does not abort: the
\* warning is printed, no exception escapes, and the HTML file written
\* earlier in the run is still there.
C11_ImageFailureTolerated ==
    ImageFailed =>
        /\ pc = "done"
        /\ err = None
        /\ out = <<"Wrote interactive HTML", "PNG export failed">>
        /\ Written(html_path(script))
        /\ fs.docs = "dir"

\* the rasterizer has failed in a run of genesis_halo_plot.py that found no
\* docs directory
C11_Witness ==
    /\ ImageFailed
    /\ script = "genesis_halo_plot"
    /\ Printed("PNG export failed")
    /\ fs.files = {Fresh(html_path(script))}

\* the PNG export has been attempted
ImageAttempted ==
    \/ pc = "write_image"
    \/ Printed("Wrote static preview PNG")
    \/ Printed("PNG export failed")
    \/ Written(png_path(script))
    \/ err /= None /\ err.raised = "write_image"

\* C12: in static mode the PNG export is attempted only once the HTML write
\* has completed, and leaves the HTML file as written; if the HTML write
\* fails, the exception ends the run and the PNG export is never attempted.
C12_ImageAfterHtml ==
    /\ ImageAttempted =>
          /\ Written(html_path(script))
          /\ out[1] = "Wrote interactive HTML"
    /\ (err /= None /\ err.raised = "write_html") =>
          /\ pc = "aborted"
          /\ ~ImageAttempted
          /\ ~Written(html_path(script))
          /\ out = <<>>

\* the HTML write of nrho_plot.py has failed
C12_Witness ==
    /\ script = "nrho_plot"
    /\ pc = "aborted"
    /\ err.raised = "write_html"
    /\ fs.docs = "dir"

\* C13: the output stage takes one of two modes by whether the literal
\* argument "--static" is on the command line.  With it the viewer is never
\* opened and a run that ends without an exception has written the figure to
\* its HTML file; without it the viewer is opened, no directory is created
\* and no file is written.
C13_TwoModes ==
    argv /= <<>> =>
        IF HasStaticArg
        THEN /\ ~viewer
             /\ pc \in {"static", "write_html", "write_image", "done", "aborted"}
             /\ pc = "done" => Written(html_path(script))
        ELSE /\ pc \in {"show", "done"}
             /\ viewer <=> pc = "done"
             /\ fs \in FileSystems(script)
             /\ out = <<>>
             /\ err = None

\* a run started with the near miss "-static" has opened the viewer, next to
\* a docs directory it left alone
C13_Witness ==
    /\ pc = "done"
    /\ viewer
    /\ argv = <<script, "-static">>
    /\ fs.docs = "dir"

\* what os.makedirs("docs", exist_ok=True) is to do in a step taken from
\* the file system f: create the directory when absent, leave it as it is
\* when present, and go on to the HTML write either way
MakeDirsStep(f) ==
    /\ f.docs = "absent" =>
          /\ fs' = [docs |-> "dir", files |-> f.files]
          /\ pc' = "write_html"
    /\ f.docs = "dir" =>
          /\ fs' = f
          /\ pc' = "write_html"

\* C14: in static mode the directory "docs" exists before the HTML file is
\* written: it is created when absent and left as it is when present, the
\* export going on from either state, and the HTML is written to the fixed
\* path of the script under docs.
C14_DocsBeforeHtml ==
    /\ [](pc \in {"write_html", "write_image"} => fs.docs = "dir")
    /\ [](\A e \in (IF fs = None THEN {} ELSE fs.files) :
             e.by = "run" =>
                /\ fs.docs = "dir"
                /\ e.path \in {html_path(script), png_path(script)}
                /\ Written(html_path(script)))
    /\ [][pc = "static" => MakeDirsStep(fs)]_vars

\* a static run that met a docs directory with files of an earlier run has
\* replaced its HTML file and kept the other
C14_Witness ==
    /\ pc = "done"
    /\ Written(html_path(script))
    /\ Stale("docs/index.html") \in fs.files
    /\ Stale(html_path(script)) \notin fs.files
    /\ script = "lucy"

-----------------------------------------------------------------------------
(* Properties of the derived points *)

\* largest mass (in whole units) of the pairs the two forms are compared on
MaxMass == 4

\* d^3 * 3 * (m_large + m_small) = R^3 * m_small, for d = R * q^(1/3)
CubeIdentity(d, R, m_small, m_large) ==
    /\ d.R = R
    /\ d.q.n * 3 * (m_large + m_small) = d.q.d * m_small

\* R / 101 < d < R / 99, which for R = 1.496e8 km puts d between 1.48e6 and
\* 1.52e6 km
AboutOneHundredth(d) ==
    /\ 99 * 99 * 99 * d.q.n < d.q.d
    /\ d.q.d < 101 * 101 * 101 * d.q.n
    /\ 1480000 * 101 <= 149600000
    /\ 149600000 <= 1520000 * 99

\* the script holds the field f of its derived values
Derived(s, f) == script = s /\ derived /= None /\ f \in DOMAIN derived

\* C15: the libration-point distance d the scripts compute satisfies
\* d^3 * 3 * (m_large + m_small) = R^3 * m_small for the separation R used;
\* the form R * (mu / 3)^(1/3) of nrho_plot.py is the same quantity for
\* mu = m_small / (m_large + m_small); with the GM of the Sun and the Earth
\* and R = 1.496e8 km, d is about 1.5e6 km.
C15_HillCube ==
    /\ Derived("genesis_halo_plot", "d_SE_L") =>
          /\ CubeIdentity(derived.d_SE_L, Norm(SunState(et_mid)), gm_earth, gm_sun)
          /\ AboutOneHundredth(derived.d_SE_L)
    /\ Derived("jwst", "d_SE_L_arr") =>
          /\ Len(derived.d_SE_L_arr) = total_pts
          /\ \A k \in 1..Len(derived.d_SE_L_arr) :
                /\ CubeIdentity(derived.d_SE_L_arr[k],
                                Norm(SunState(CallGrid[k])), gm_earth, gm_sun)
                /\ AboutOneHundredth(derived.d_SE_L_arr[k])
    /\ mid /= None =>
          /\ mid.r_L2.R = Norm(mid.r_moon_embr_mid.val)
          /\ mid.r_L2.q.n * 3 * mu.d = mid.r_L2.q.d * mu.n
          /\ \A m_small \in 1..MaxMass, m_large \in 1..MaxMass :
                /\ cr3bp_distance(mid.R_moon, Rat(m_small, m_large + m_small))
                     = hill_distance(mid.R_moon, m_small, m_large)
                /\ CubeIdentity(cr3bp_distance(mid.R_moon,
                                               Rat(m_small, m_large + m_small)),
                                mid.R_moon, m_small, m_large)

\* jwst.py has estimated the L2 distance at three epochs or more
C15_Witness ==
    /\ Derived("jwst", "d_SE_L_arr")
    /\ Len(derived.d_SE_L_arr) >= 3
    /\ derived.d_SE_L_arr[2] /= derived.d_SE_L_arr[1]

\* p is the vector (X, Y) turned about Z by 60 degrees, counter-clockwise
\* for sense = 1 and clockwise for sense = -1; each equation is split into
\* its integer part and its sqrt(3) part
RotatedBy(X, Y, p, sense) ==
    LET n2 == X * X + Y * Y
    IN  \* j . p = |j|^2 cos 60 = |j|^2 / 2
        /\ X * p.x.a + Y * p.y.a = n2
        /\ X * p.x.b + Y * p.y.b = 0
        \* (j x p)_z = sense |j|^2 sin 60 = sense |j|^2 sqrt(3) / 2
        /\ X * p.y.a - Y * p.x.a = 0
        /\ X * p.y.b - Y * p.x.b = sense * n2
        \* |p|^2 = |j|^2
        /\ p.x.a * p.x.a + 3 * p.x.b * p.x.b
             + p.y.a * p.y.a + 3 * p.y.b * p.y.b = 4 * n2
        /\ p.x.a * p.x.b + p.y.a * p.y.b = 0

\* C16: compute_l4_l5_from_jupiter rotates each input vector about Z by +60
\* degrees for L4 and by -60 degrees for L5: (R, 0, 0) gives
\* L4 = (0.5 R, +0.866 R, 0) and L5 = (0.5 R, -0.866 R, 0); the z component
\* of every sample is returned unchanged; there is one L4 and one L5 point
\* per input sample, in input order.
C16_TrojanRotation ==
    Derived("lucy", "l4") =>
        LET j == traces[3]
        IN  /\ j.targ = "JUPITER_BARYCENTER"
            /\ Len(derived.l4) = Len(j.x)
            /\ Len(derived.l5) = Len(j.x)
            /\ \A k \in 1..Len(j.x) :
                  LET X == Value(j.x[k])
                      Y == Value(j.y[k])
                  IN  /\ derived.l4[k].z = j.z[k]
                      /\ derived.l5[k].z = j.z[k]
                      /\ RotatedBy(X, Y, derived.l4[k], 1)
                      /\ RotatedBy(X, Y, derived.l5[k], -1)
                      /\ Y = 0 =>
                            /\ derived.l4[k].x = [a |-> X, b |-> 0]
                            /\ derived.l4[k].y = [a |-> 0, b |-> X]
                            /\ derived.l5[k].x = [a |-> X, b |-> 0]
                            /\ derived.l5[k].y = [a |-> 0, b |-> -X]
            \* 0.8655 < sqrt(3) / 2 < 0.8665
            /\ 4 * 8655 * 8655 < 3 * 10000 * 10000
            /\ 3 * 10000 * 10000 < 4 * 8665 * 8665

\* L4 and L5 were computed from three samples or more of a body at (R, 0, 0)
C16_Witness ==
    /\ Derived("lucy", "l4")
    /\ Len(derived.l4) >= 3
    /\ eph.y0 = 0 /\ eph.x0 > 0
    /\ derived.l4[3].y = [a |-> 0, b |-> eph.x0]

-----------------------------------------------------------------------------
(* Properties of the kernel registry *)

\* the first n kernels of the script's list
FirstKernels(n) == SubSeq(Kernels(script), 1, n)

\* a kernel has failed to load
LoadFailed == err /= None /\ err.raised = "furnsh"

\* C17: kernels are loaded one at a time in list order, and a kernel that
\* fails to load ends the run there: no later kernel is loaded, no coverage
\* or state query is made, no file is written and no viewer opened; a run
\* gets past its loads only with every kernel of the list loaded.
C17_LoadFailureAborts ==
    /\ pc = "kernels" => (i < Len(Kernels(script)) /\ loaded = FirstKernels(i))
    /\ LoadFailed =>
          /\ pc = "aborted"
          /\ i < Len(Kernels(script))
          /\ err.kernel = Kernels(script)[i + 1]
          /\ loaded = FirstKernels(i)
          /\ ~queried
          /\ asked = {}
          /\ ets = <<>> /\ traces = <<>> /\ derived = None
          /\ argv = <<>> /\ fs = None /\ ~viewer /\ out = <<>>
    /\ (queried \/ pc \notin {"kclear", "kernels", "aborted"}) =>
          loaded = Kernels(script)

\* the run of juice_cruise.py has ended on its fourth kernel, three loaded
C17_Witness ==
    /\ script = "juice_cruise"
    /\ LoadFailed
    /\ err.kernel = "jup365_19900101_20500101.bsp"
    /\ Len(loaded) = 3

\* C18: in every script all kernel loads come before the first coverage or
\* state query, and from the first query to the end of the run no kernel is
\* loaded, unloaded or cleared.
C18_RegistryWriteOnce ==
    /\ [](queried => loaded = Kernels(script))
    /\ [](asked /= {} => queried)
    /\ [][queried => (queried' /\ loaded' = loaded)]_vars
    /\ [][loaded' /= loaded => (~queried /\ ~queried')]_vars

\* test_transform.py, which clears the registry first, has run to its end
C18_Witness ==
    /\ script = "test_transform"
    /\ pc = "done"
    /\ queried
    /\ asked /= {}
    /\ Len(loaded) = 3

-----------------------------------------------------------------------------
(* Properties of frames and centers *)

\* the states behind the entries of a coordinate list
StatesOf(l) == { l[k].st : k \in 1..Len(l) }

\* every queried state a sampler script holds: behind its traces, its lunar
\* cycle and the points it derives
HeldStates ==
    IF script \notin Scripts THEN {}
    ELSE UNION { StatesOf(traces[n].x) : n \in 1..Len(traces) }
         \cup StatesOf(x)
         \cup StatesOf(moon_x)
         \cup (IF Derived(script, "st_moon_mid") THEN {derived.st_moon_mid} ELSE {})
         \cup (IF Derived(script, "st_sun_mid") THEN {derived.st_sun_mid} ELSE {})
         \cup (IF Derived(script, "R_se_list")
               THEN { derived.R_se_list[k].norm : k \in 1..Len(derived.R_se_list) }
               ELSE {})
         \cup (IF Derived(script, "intercepts")
               THEN { derived.intercepts[k] : k \in 1..Len(derived.intercepts) }
               ELSE {})

-----------------------------------------------------------------------------
(* Properties of the reordered loops *)

\* what the iterations of the first n epochs appended to list f, put
\* together in epoch order
RECURSIVE Gathered(_, _, _)
Gathered(slots, f, n) ==
    IF n = 0 THEN <<>> ELSE Gathered(slots, f, n - 1) \o slots[n][f]

ListNames == {"x", "y", "z", "vx", "vy", "vz", "speeds", "utcs"}

\* the output lists of the loop in progress
Lists == Appends(x, y, z, vx, vy, vz, speeds, utcs)

\* C20: whatever the order in which the iterations of a sampling loop run,
\* their results put together in epoch order are the lists the sequential
\* loop builds, while the loop runs and in what the sampler returns; so for
\* the filtering loop of vger.py.
C20_OrderIndependent ==
    par /= None =>
        /\ (pc = "loop" /\ par.call = call /\ 1..i \subseteq DOMAIN par.slots) =>
              \A f \in ListNames : Lists[f] = Gathered(par.slots, f, i)
        /\ (par.call \in 1..Len(traces)) =>
              \A f \in ListNames :
                  traces[par.call][f] =
                      Gathered(par.slots, f, Cardinality(DOMAIN par.slots))

\* the filtering loop has run both ways over four epochs or more, the
\* reordered run out of epoch order, some samples kept and some dropped
C20_Witness ==
    /\ script = "vger" /\ pc = "loop"
    /\ par /= None /\ par.call = call /\ par.reordered
    /\ Len(ets) >= 4
    /\ i = Len(ets)
    /\ DOMAIN par.slots = 1..Len(ets)
    /\ Len(x) >= 2 /\ Len(x) < Len(ets)
    /\ x[1] /= x[2]

-----------------------------------------------------------------------------
(* Properties of termination *)

\* the run is over: the script ran to its last statement, or an exception
\* ended it
Finished == pc \in {"done", "aborted"}

\* a step inside a loop makes the next pass of that loop on the same grid,
\* and a loop is left only when it has made one pass for each epoch, or when
\* a query raises, which ends the run
LoopStep ==
    /\ (pc = "loop" /\ pc' = "loop") => (i' = i + 1 /\ i < Len(ets) /\ ets' = ets)
    /\ (pc = "loop" /\ pc' /= "loop") =>
          \/ i = Len(ets) /\ Len(ets) = total_pts
          \/ pc' = "aborted" /\ err' = spk_error /\ i' = i

\* no statement is made twice: a step goes on to another stage, or makes the
\* next pass of the loop it is in; an exception ends the run
NoRetry ==
    /\ pc' /= pc \/ i' = i + 1
    /\ (err' /= None /\ err = None) => pc' = "aborted"
    /\ Finished => UNCHANGED vars

-----------------------------------------------------------------------------
(* Properties of the L2 markers *)

\* the Hill estimate for the Earth-Sun separation at epoch et
HillAt(et) == hill_distance(Norm(query("SUN", et, "GSE", "EARTH")), gm_earth, gm_sun)

-----------------------------------------------------------------------------
(* Properties of the hover data *)

\* the place of epoch e in the grid g
GridIndex(g, e) == CHOOSE j \in 1..Len(g) : g[j] = e

\* the five lists of the filtering sampler are equally long, entry k of each
\* comes from the one state queried for body at an epoch among the first n
\* of the grid, and the epochs follow one another in grid order
InStep(t, body, n) ==
    /\ Len(t.y) = Len(t.x) /\ Len(t.z) = Len(t.x)
    /\ Len(t.speeds) = Len(t.x) /\ Len(t.utcs) = Len(t.x)
    /\ \A k \in 1..Len(t.x) :
          LET st == t.x[k].st
          IN  /\ \E j \in 1..n : st = VgerState(body, ets[j])
              /\ t.x[k] = Coord(st, 1)
              /\ t.y[k] = Coord(st, 2)
              /\ t.z[k] = Coord(st, 3)
              /\ t.speeds[k] = Speed(st)
              /\ t.utcs[k] = et2utc(st.et)
    /\ \A k, l \in 1..Len(t.x) :
          k < l => GridIndex(ets, t.x[k].st.et) < GridIndex(ets, t.x[l].st.et)

\* C23: in vger.py the lists x, y, z, speeds and utcs of sample_object have
\* the same length after every iteration, entry k of each coming from the
\* same kept epoch; the lists returned are a subsequence of the grid, in
\* grid order; and the hover data of both Voyagers is built from them row by
\* row, the fallback customdata = None never being taken.
C23_ListsInStep ==
    script = "vger" =>
        /\ pc = "loop" =>
              InStep([x |-> x, y |-> y, z |-> z, speeds |-> speeds,
                      utcs |-> utcs], targ, i)
        /\ \A n \in 1..Len(traces) :
              InStep(traces[n], traces[n].targ, Len(ets))
        /\ Derived("vger", "voyager_custom") =>
              \A n \in 1..2 :
                  LET t == traces[n]
                      c == IF n = 1 THEN derived.voyager_custom
                           ELSE derived.v2_custom
                  IN  /\ c /= None
                      /\ c.rows = [k \in 1..Len(t.x) |->
                                       <<t.utcs[k], t.speeds[k]>>]

\* the hover data of vger.py is built, Voyager 1 having lost some of its
\* samples to the filter and kept two or more
C23_Witness ==
    /\ Derived("vger", "voyager_custom")
    /\ pc = "plot"
    /\ Len(derived.voyager_custom.rows) >= 2
    /\ Len(derived.voyager_custom.rows) < Len(ets)
    /\ derived.voyager_custom.rows[1] /= derived.voyager_custom.rows[2]

\* the hover data holds one pair for every position of the trace t, pair k
\* made of the timestamp of the epoch sample k was queried at and of the
\* speed of the state that gave position k, which is the state of epoch k
\* of the grid the sampler worked on
PairedWith(c, t) ==
    /\ Len(c) = Len(t.x)
    /\ \A k \in 1..Len(t.x) :
          LET st == t.x[k].st
          IN  /\ st.et = t.ets[k]
              /\ t.x[k] = Coord(st, 1)
              /\ t.y[k] = Coord(st, 2)
              /\ t.z[k] = Coord(st, 3)
              /\ c[k] = <<et2utc(st.et),
                          Norm(<<Coord(st, 4), Coord(st, 5), Coord(st, 6)>>)>>

\* C24: the hover data of jwst.py and of lucy.py holds exactly one pair of a
\* timestamp and a speed for every plotted position of the spacecraft, pair
\* k coming from the epoch and the sample of position k; in jwst.py this
\* holds although the epochs of the timestamps are rebuilt from et_start,
\* et_end and total_pts after the sampling.
C24_HoverPairs ==
    \A s \in {"jwst", "lucy"} :
        Derived(s, "customdata") => PairedWith(derived.customdata, traces[1])

\* jwst.py has built its hover data for three positions or more, whose
\* timestamps differ
C24_Witness ==
    /\ Derived("jwst", "customdata")
    /\ pc = "plot"
    /\ Len(derived.customdata) >= 3
    /\ Len(traces[1].x) >= 3
    /\ derived.customdata[1][1] /= derived.customdata[2][1]

-----------------------------------------------------------------------------
(* Properties of the coverage window *)

\* the epoch et lies between the seconds a and b, both included
Between(a, et, b) == RatLeq(RatInt(a), et) /\ RatLeq(et, RatInt(b))

\* the end bound of the sampling window of the running script
WindowEnd == IF script = "nrho_plot" THEN et_start + period ELSE et_end

\* the scripts that take both bounds of their sampling window from the
\* coverage window of the kernel
CoverageScripts == {"vger", "jwst", "lucy"}

-----------------------------------------------------------------------------
(* Properties of the two constructions of the rotating frame *)

\* C26: for every Moon state with r and v not parallel, the matrix built by
\* hand in test_transform.py (Y = Z x X, taken as it is) and the matrix
\* get_embr_transform of nrho_plot.py builds for the same state
\* (Y = Z x X, scaled to unit length) are the same matrix, with the rows X,
\* Y, Z in that order.
C26_SameMatrix ==
    Derived("test_transform", "xfm_manual") =>
        LET st == derived.st_moon_j2000
            m  == get_embr_transform(st.et)
        IN  NonParallel(st.r, st.v) =>
                /\ \A k \in 1..3 : VecEq(derived.xfm_manual.rows[k], m.rows[k])
                /\ VecEq(m.rows[1], x_hat(st.r, st.v))
                /\ VecEq(m.rows[2], y_hat(st.r, st.v))
                /\ VecEq(m.rows[3], z_hat(st.r, st.v))

\* test_transform.py has built its matrix from a Moon state with r and v
\* neither parallel nor at right angles, and r along no coordinate axis
C26_Witness ==
    /\ Derived("test_transform", "xfm_manual")
    /\ NonParallel(derived.st_moon_j2000.r, derived.st_moon_j2000.v)
    /\ Dot3(derived.st_moon_j2000.r.n, derived.st_moon_j2000.v.n) /= 0
    /\ Cardinality({k \in 1..3 : derived.st_moon_j2000.r.n[k] /= 0}) >= 2
    /\ derived.xfm_manual.rows[2].d > 0

-----------------------------------------------------------------------------
(* Properties of a sampling window shorter than a day *)

\* the sampling window of a daily script with a count of samples is longer
\* than zero and shorter than one day, and the count is fixed
SubDay ==
    /\ script \in {"juice_cruise", "jwst", "lucy"}
    /\ 0 < et_end - et_start /\ et_end - et_start < Day
    /\ ~PreGrid

\* C27: on a sampling window longer than zero and shorter than a day,
\* juice_cruise.py counts zero samples, builds an empty grid for every body,
\* asks for no state and hands empty traces to the plot, while jwst.py and
\* lucy.py count one sample, their grid being the window start alone and
\* every trace holding the one state queried there; the end bound of the
\* window is not sampled and no query raises.
C27_SubDayWindow ==
    SubDay =>
        /\ script = "juice_cruise" =>
              /\ total_pts = 0
              /\ ets = <<>>
              /\ asked = {} /\ sc_asked = {}
              /\ x = <<>> /\ y = <<>> /\ z = <<>>
              /\ \A n \in 1..Len(traces) : traces[n].ets = <<>>
              /\ pc \in {"plot", "static", "show", "write_html", "done"} =>
                    /\ Len(traces) = Len(Bodies("juice_cruise"))
                    /\ \A n \in 1..Len(traces) :
                          traces[n].x = <<>> /\ traces[n].y = <<>> /\ traces[n].z = <<>>
        /\ script \in {"jwst", "lucy"} =>
              /\ total_pts = 1
              /\ pc /= "sample" => ets = <<RatInt(et_start)>>
              /\ sc_asked \subseteq {RatInt(et_start)}
              /\ \A n \in 1..Len(traces) :
                    /\ traces[n].ets = <<RatInt(et_start)>>
                    /\ Len(traces[n].x) = 1
                    /\ traces[n].x[1].st.et = RatInt(et_start)
              /\ pc = "loop" =>
                    /\ Len(x) = i /\ i <= 1
                    /\ \A k \in 1..Len(x) : x[k].st.et = RatInt(et_start)
        /\ RatInt(et_end) \notin sc_asked
        /\ err /= spk_error
        /\ pc = "aborted" => err.raised \in {"makedirs", "write_html"}

\* juice_cruise.py has come to its plot on a window of half a day, every
\* body sampled on the empty grid
C27_Witness ==
    /\ SubDay
    /\ script = "juice_cruise" /\ pc = "plot"
    /\ et_end - et_start = 43200
    /\ total_pts = 0
    /\ Len(traces) = 4
    /\ traces[1].x = <<>>

====
